---- MODULE Spec2Model ----
(***************************************************************************)
(* Lip-sync engine of the interactive 3D baby character.                   *)
(*                                                                         *)
(* The module models the text-scheduled and live-analysis lip-sync paths   *)
(* of InteractiveBabyCharacter and ProfessionalBabyCharacter (src/app.js), *)
(* together with the two detectors they drive: PhonemeDetector             *)
(* (src/deploy/phoneme-detector.js) and ProfessionalLipSyncSystem          *)
(* (src/phoneme-detector.js), on top of a small model of the browser's     *)
(* scheduling: a clock, setTimeout timers that fire in due order and an    *)
(* animation frame that runs the requested callbacks in request order.     *)
(*                                                                         *)
(* Numbers.  Weights, intensities and curve values are per-mille integers  *)
(* (1000 is 1.0), times are integer milliseconds.  NaN is one value        *)
(* outside both ranges; it is also what arithmetic on undefined gives.     *)
(***************************************************************************)
EXTENDS Integers, Sequences, FiniteSets, TLC

\* ------------------------------------------------------------------------
\* Bounds of the model (not program constants).
\* ------------------------------------------------------------------------

\* Number of operations the page invokes in one behaviour: session starts,
\* stops, and the user hiding the page.
MaxOps == 2

\* The clock stops advancing at this time (ms).
MaxTime == 2100

\* The clock advances in steps of this many ms.
Tick == 50

\* ------------------------------------------------------------------------
\* Numbers
\* ------------------------------------------------------------------------

\* 1.0 in per-mille.
Scale == 1000

\* JavaScript's NaN; every comparison with it is false.
NaN == 0 - 1000000

IsNaN(x) == x = NaN

\* JS a * b / Scale on per-mille operands.
Mul(a, b) == IF IsNaN(a) \/ IsNaN(b) THEN NaN ELSE (a * b) \div Scale

\* JS a + b.
Add(a, b) == IF IsNaN(a) \/ IsNaN(b) THEN NaN ELSE a + b

\* JS a - b.
Sub(a, b) == IF IsNaN(a) \/ IsNaN(b) THEN NaN ELSE a - b

\* Math.min(a, b): NaN when either argument is NaN.
MathMin(a, b) == IF IsNaN(a) \/ IsNaN(b) THEN NaN ELSE IF a < b THEN a ELSE b

\* Math.max(a, b): NaN when either argument is NaN.
MathMax(a, b) == IF IsNaN(a) \/ IsNaN(b) THEN NaN ELSE IF a > b THEN a ELSE b

\* JS a < b: false when either side is NaN.
Less(a, b) == ~IsNaN(a) /\ ~IsNaN(b) /\ a < b

\* JS a > b: false when either side is NaN.
Greater(a, b) == ~IsNaN(a) /\ ~IsNaN(b) /\ a > b

\* JS (x || 0) on a number: 0 for NaN, undefined and 0.
OrZero(x) == IF IsNaN(x) THEN 0 ELSE x

\* ------------------------------------------------------------------------
\* Viseme tables
\* ------------------------------------------------------------------------

\* A viseme descriptor object.  A field the object does not have reads as
\* undefined: "undefined" for a name, NaN for a number once it is used in
\* arithmetic.  secondary "null" is JavaScript's null.
Viseme(p, s, i, j) == [primary |-> p, secondary |-> s, intensity |-> i, jawIntensity |-> j]

\* PhonemeDetector.visemeSystem
visemeSystem ==
   "AA" :> Viseme("Ah", "Jaw_Open", 800, NaN) @@
   "AE" :> Viseme("AE", "Jaw_Open", 700, NaN) @@
   "AH" :> Viseme("Ah", "Jaw_Open", 600, NaN) @@
   "AO" :> Viseme("Oh", "Jaw_Open", 800, NaN) @@
   "AW" :> Viseme("W_OO", "Mouth_Pucker", 900, NaN) @@
   "AY" :> Viseme("Ah", "Mouth_Stretch_L", 800, NaN) @@
   "EH" :> Viseme("EE", "Jaw_Open", 600, NaN) @@
   "ER" :> Viseme("Er", "Mouth_Press_L", 700, NaN) @@
   "EY" :> Viseme("EE", "Mouth_Stretch_L", 800, NaN) @@
   "IH" :> Viseme("IH", "Jaw_Open", 500, NaN) @@
   "IY" :> Viseme("EE", "Mouth_Stretch_L", 900, NaN) @@
   "OW" :> Viseme("Oh", "Mouth_Pucker", 800, NaN) @@
   "OY" :> Viseme("W_OO", "Mouth_Pucker", 900, NaN) @@
   "UH" :> Viseme("W_OO", "Mouth_Pucker", 700, NaN) @@
   "UW" :> Viseme("W_OO", "Mouth_Pucker", 900, NaN) @@
   "B" :> Viseme("B_M_P", "Mouth_Close", 900, NaN) @@
   "CH" :> Viseme("Ch_J", "Mouth_Pucker", 800, NaN) @@
   "D" :> Viseme("T_L_D_N", "Jaw_Open", 600, NaN) @@
   "DH" :> Viseme("TH", "Mouth_Stretch_L", 700, NaN) @@
   "F" :> Viseme("F_V", "Mouth_Press_L", 800, NaN) @@
   "G" :> Viseme("K_G_H_NG", "Jaw_Open", 700, NaN) @@
   "HH" :> Viseme("K_G_H_NG", "Jaw_Open", 500, NaN) @@
   "JH" :> Viseme("Ch_J", "Mouth_Pucker", 800, NaN) @@
   "K" :> Viseme("K_G_H_NG", "Jaw_Open", 700, NaN) @@
   "L" :> Viseme("T_L_D_N", "Tongue_Bulge_L", 600, NaN) @@
   "M" :> Viseme("B_M_P", "Mouth_Close", 900, NaN) @@
   "N" :> Viseme("T_L_D_N", "Jaw_Open", 600, NaN) @@
   "NG" :> Viseme("K_G_H_NG", "Jaw_Open", 700, NaN) @@
   "P" :> Viseme("B_M_P", "Mouth_Close", 900, NaN) @@
   "R" :> Viseme("R", "Mouth_Pucker", 700, NaN) @@
   "S" :> Viseme("S_Z", "Mouth_Stretch_L", 800, NaN) @@
   "SH" :> Viseme("S_Z", "Mouth_Pucker", 800, NaN) @@
   "T" :> Viseme("T_L_D_N", "Jaw_Open", 600, NaN) @@
   "TH" :> Viseme("TH", "Mouth_Stretch_L", 700, NaN) @@
   "V" :> Viseme("F_V", "Mouth_Press_L", 800, NaN) @@
   "W" :> Viseme("W_OO", "Mouth_Pucker", 900, NaN) @@
   "Y" :> Viseme("EE", "Mouth_Stretch_L", 700, NaN) @@
   "Z" :> Viseme("S_Z", "Mouth_Stretch_L", 800, NaN) @@
   "ZH" :> Viseme("S_Z", "Mouth_Pucker", 800, NaN) @@
   "rest" :> Viseme("Ah", "null", 300, NaN) @@
   "neutral" :> Viseme("Ah", "null", 200, NaN)

\* ProfessionalLipSyncSystem.audioVisemeMapping (frequencyRange and
\* intensityCurve are read by no code and are left out).
audioVisemeMapping ==
   "AA" :> Viseme("Ah", "Jaw_Open", NaN, 800) @@
   "AE" :> Viseme("AE", "Jaw_Open", NaN, 700) @@
   "AH" :> Viseme("Ah", "Jaw_Open", NaN, 600) @@
   "AO" :> Viseme("Oh", "Jaw_Open", NaN, 800) @@
   "AW" :> Viseme("W_OO", "Mouth_Pucker", NaN, 600) @@
   "AY" :> Viseme("Ah", "Mouth_Stretch_L", NaN, 700) @@
   "EH" :> Viseme("EE", "Jaw_Open", NaN, 500) @@
   "ER" :> Viseme("Er", "Mouth_Press_L", NaN, 400) @@
   "EY" :> Viseme("EE", "Mouth_Stretch_L", NaN, 600) @@
   "IH" :> Viseme("IH", "Jaw_Open", NaN, 400) @@
   "IY" :> Viseme("EE", "Mouth_Stretch_L", NaN, 500) @@
   "OW" :> Viseme("Oh", "Mouth_Pucker", NaN, 700) @@
   "OY" :> Viseme("W_OO", "Mouth_Pucker", NaN, 600) @@
   "UH" :> Viseme("W_OO", "Mouth_Pucker", NaN, 500) @@
   "UW" :> Viseme("W_OO", "Mouth_Pucker", NaN, 600) @@
   "B" :> Viseme("B_M_P", "Mouth_Close", NaN, 300) @@
   "CH" :> Viseme("Ch_J", "Mouth_Pucker", NaN, 200) @@
   "D" :> Viseme("T_L_D_N", "Jaw_Open", NaN, 400) @@
   "DH" :> Viseme("TH", "Mouth_Stretch_L", NaN, 300) @@
   "F" :> Viseme("F_V", "Mouth_Press_L", NaN, 200) @@
   "G" :> Viseme("K_G_H_NG", "Jaw_Open", NaN, 500) @@
   "HH" :> Viseme("K_G_H_NG", "Jaw_Open", NaN, 300) @@
   "JH" :> Viseme("Ch_J", "Mouth_Pucker", NaN, 200) @@
   "K" :> Viseme("K_G_H_NG", "Jaw_Open", NaN, 500) @@
   "L" :> Viseme("T_L_D_N", "Tongue_Bulge_L", NaN, 400) @@
   "M" :> Viseme("B_M_P", "Mouth_Close", NaN, 300) @@
   "N" :> Viseme("T_L_D_N", "Jaw_Open", NaN, 400) @@
   "NG" :> Viseme("K_G_H_NG", "Jaw_Open", NaN, 500) @@
   "P" :> Viseme("B_M_P", "Mouth_Close", NaN, 300) @@
   "R" :> Viseme("R", "Mouth_Pucker", NaN, 300) @@
   "S" :> Viseme("S_Z", "Mouth_Stretch_L", NaN, 100) @@
   "SH" :> Viseme("S_Z", "Mouth_Pucker", NaN, 200) @@
   "T" :> Viseme("T_L_D_N", "Jaw_Open", NaN, 400) @@
   "TH" :> Viseme("TH", "Mouth_Stretch_L", NaN, 300) @@
   "V" :> Viseme("F_V", "Mouth_Press_L", NaN, 200) @@
   "W" :> Viseme("W_OO", "Mouth_Pucker", NaN, 400) @@
   "Y" :> Viseme("EE", "Mouth_Stretch_L", NaN, 400) @@
   "Z" :> Viseme("S_Z", "Mouth_Stretch_L", NaN, 100) @@
   "ZH" :> Viseme("S_Z", "Mouth_Pucker", NaN, 200)

\* Property names every object literal inherits from Object.prototype; a
\* bracket lookup with one of these keys yields the inherited member.
ObjectPrototypeKeys ==
  {"constructor", "toString", "valueOf", "hasOwnProperty", "isPrototypeOf",
   "propertyIsEnumerable", "toLocaleString", "__proto__"}

\* What reading .primary, .secondary, .intensity of an inherited member
\* (a function or the prototype object) gives: undefined each time.
InheritedMember == Viseme("undefined", "undefined", NaN, NaN)

\* table[key] as JavaScript evaluates it: own entry, inherited member, or
\* undefined.  The result is <<found, value>>; found is the truthiness.
Lookup(table, key) ==
  IF key \in DOMAIN table THEN <<TRUE, table[key]>>
  ELSE IF key \in ObjectPrototypeKeys THEN <<TRUE, InheritedMember>>
  ELSE <<FALSE, InheritedMember>>

\* PhonemeDetector.getVisemeData
PhonemeDetector_getVisemeData(phoneme) ==
  IF Lookup(visemeSystem, phoneme)[1]
  THEN Lookup(visemeSystem, phoneme)[2]
  ELSE visemeSystem["rest"]

\* ProfessionalLipSyncSystem.getVisemeData
ProfessionalLipSyncSystem_getVisemeData(phoneme) ==
  IF Lookup(audioVisemeMapping, phoneme)[1]
  THEN Lookup(audioVisemeMapping, phoneme)[2]
  ELSE Viseme("Ah", "null", 500, 300)

\* ------------------------------------------------------------------------
\* The mesh
\* ------------------------------------------------------------------------

\* Length of mainMesh.morphTargetInfluences in the model: the slots of the
\* blend shapes the modelled visemes can name.  A slot no viseme names is
\* only ever written 0 and is left out.
NumInfluences == 5

Slots == 1 .. NumInfluences

\* mainMesh.morphTargetDictionary of a mesh that has every modelled shape.
FullDictionary ==
  ("Ah" :> 1) @@ ("EE" :> 2) @@ ("Oh" :> 3) @@ ("Jaw_Open" :> 4) @@
  ("K_G_H_NG" :> 5)

\* A mesh whose dictionary lacks the shape "Ah".
PartialDictionary ==
  ("EE" :> 2) @@ ("Oh" :> 3) @@ ("Jaw_Open" :> 4) @@ ("K_G_H_NG" :> 5)

Dictionaries == {FullDictionary, PartialDictionary}

\* morphTargets[name] !== undefined
HasTarget(dict, name) == name \in DOMAIN dict

\* A truthy blend-shape name: not null, not undefined, not "".
Truthy(name) == name \notin {"null", "undefined", ""}

AllZero == [i \in Slots |-> 0]

\* ------------------------------------------------------------------------
\* Curves
\* ------------------------------------------------------------------------

\* Math.min(elapsed / duration, 1) in per-mille.  x/NaN and 0/0 are NaN,
\* x/0 for x > 0 is Infinity, which the min clips to 1.
Progress(elapsed, duration) ==
  IF IsNaN(duration) \/ IsNaN(elapsed) THEN NaN
  ELSE IF duration = 0 THEN (IF elapsed = 0 THEN NaN ELSE Scale)
  ELSE IF (elapsed * Scale) \div duration < Scale
       THEN (elapsed * Scale) \div duration ELSE Scale

\* Math.sin(p * Math.PI) sampled every 0.05 of progress; sin(pi) is taken
\* as 0 (the 1.2e-16 of floating point is below the per-mille resolution).
SinTable ==
  <<0, 156, 309, 454, 588, 707, 809, 891, 951, 988, 1000,
    988, 951, 891, 809, 707, 588, 454, 309, 156, 0>>

\* A curve that never leaves 0.
BellCurve_Flat(progress) == 0

\* The bellCurve computed inside smoothTransitionToMorphTarget.
BellCurve(progress) ==
  IF IsNaN(progress) THEN NaN ELSE SinTable[(progress \div 50) + 1]

\* (1 - t)^2 in per-mille.
SquareOfRest(t) == ((Scale - t) * (Scale - t)) \div Scale

\* easeOutQuart(t) = 1 - Math.pow(1 - t, 4)
easeOutQuart(t) ==
  IF IsNaN(t) THEN NaN
  ELSE Scale - ((SquareOfRest(t) * SquareOfRest(t)) \div Scale)

\* ------------------------------------------------------------------------
\* Phoneme data
\* ------------------------------------------------------------------------

\* PhonemeDetector.phonemeToMorphTarget
phonemeToMorphTarget ==
  ("AA" :> "Ah") @@ ("AE" :> "AE") @@ ("AH" :> "Ah") @@ ("AO" :> "Oh") @@
  ("AW" :> "W_OO") @@ ("AY" :> "Ah") @@ ("EH" :> "EE") @@ ("ER" :> "Er") @@
  ("EY" :> "EE") @@ ("IH" :> "IH") @@ ("IY" :> "EE") @@ ("OW" :> "Oh") @@
  ("OY" :> "W_OO") @@ ("UH" :> "W_OO") @@ ("UW" :> "W_OO") @@
  ("B" :> "B_M_P") @@ ("CH" :> "Ch_J") @@ ("D" :> "T_L_D_N") @@
  ("DH" :> "TH") @@ ("F" :> "F_V") @@ ("G" :> "K_G_H_NG") @@
  ("HH" :> "K_G_H_NG") @@ ("JH" :> "Ch_J") @@ ("K" :> "K_G_H_NG") @@
  ("L" :> "T_L_D_N") @@ ("M" :> "B_M_P") @@ ("N" :> "T_L_D_N") @@
  ("NG" :> "K_G_H_NG") @@ ("P" :> "B_M_P") @@ ("R" :> "R") @@
  ("S" :> "S_Z") @@ ("SH" :> "S_Z") @@ ("T" :> "T_L_D_N") @@
  ("TH" :> "TH") @@ ("V" :> "F_V") @@ ("W" :> "W_OO") @@ ("Y" :> "EE") @@
  ("Z" :> "S_Z") @@ ("ZH" :> "S_Z") @@ ("rest" :> "Ah") @@
  ("neutral" :> "Ah")

\* PhonemeDetector.getPhonemeDuration in ms.
getPhonemeDuration ==
  ("AA" :> 200) @@ ("AE" :> 180) @@ ("AH" :> 180) @@ ("AO" :> 200) @@
  ("AW" :> 250) @@ ("AY" :> 200) @@ ("EH" :> 180) @@ ("ER" :> 200) @@
  ("EY" :> 200) @@ ("IH" :> 180) @@ ("IY" :> 200) @@ ("OW" :> 200) @@
  ("OY" :> 250) @@ ("UH" :> 180) @@ ("UW" :> 200) @@
  ("B" :> 150) @@ ("CH" :> 180) @@ ("D" :> 150) @@ ("DH" :> 150) @@
  ("F" :> 180) @@ ("G" :> 150) @@ ("HH" :> 150) @@ ("JH" :> 180) @@
  ("K" :> 150) @@ ("L" :> 150) @@ ("M" :> 180) @@ ("N" :> 150) @@
  ("NG" :> 180) @@ ("P" :> 150) @@ ("R" :> 150) @@ ("S" :> 180) @@
  ("SH" :> 180) @@ ("T" :> 150) @@ ("TH" :> 150) @@ ("V" :> 150) @@
  ("W" :> 150) @@ ("Y" :> 150) @@ ("Z" :> 150) @@ ("ZH" :> 180) @@
  ("rest" :> 80) @@ ("neutral" :> 80)

\* PhonemeDetector.wordPause and sentencePause in ms.
wordPause == 50
sentencePause == 200

\* An element extractPhonemes pushes for a phoneme of a word.
PhonemeData(code) ==
  [phoneme |-> code, morphTarget |-> phonemeToMorphTarget[code],
   duration |-> getPhonemeDuration[code]]

\* The pause element extractPhonemes pushes between words and at the end.
Pause(ms) == [phoneme |-> "rest", morphTarget |-> "Ah", duration |-> ms]

\* The fewest elements extractPhonemes returns for a short text:
\* Math.max(8, ...).
minPhonemes == 8

\* extractPhonemes pads a list shorter than min with copies of its own
\* elements, element (picks[k] mod Len) for the k-th copy (the
\* Math.random() draws).
Padded(list, min, picks) ==
  list \o [k \in 1 .. (min - Len(list)) |->
            list[(picks[k] % Len(list)) + 1]]

\* The phoneme lists a session is started with: what extractPhonemes
\* returns for the texts "a" and "e u", for one sequence of draws each.
PhonemeLists ==
  { Padded(<<PhonemeData("AA"), Pause(sentencePause)>>, minPhonemes,
           <<0, 1, 0, 0, 1, 0>>),
    Padded(<<PhonemeData("EH"), Pause(wordPause), PhonemeData("AH"),
             Pause(sentencePause)>>, minPhonemes, <<0, 2, 3, 2>>) }

\* audioElement.duration in ms: NaN until the metadata has loaded.
AudioDurations == {NaN, 800}

\* No phoneme: the payload of a timer or callback that carries none.
NoPhoneme == [phoneme |-> "", morphTarget |-> "", duration |-> 0]

\* ------------------------------------------------------------------------
\* Text to phonemes
\* ------------------------------------------------------------------------

\* A text is a sequence of one-character strings.

\* The upper-case letters of the modelled texts and their lower case.
UpperCase == ("H" :> "h") @@ ("S" :> "s")

\* text.toLowerCase()
toLowerCase(text) ==
  [i \in 1 .. Len(text) |->
     IF text[i] \in DOMAIN UpperCase THEN UpperCase[text[i]] ELSE text[i]]

\* The k-th smallest element of a set of numbers.
Kth(S, k) == CHOOSE x \in S : Cardinality({y \in S : y < x}) = k - 1

\* text.split(/\s+/): a run of spaces separates two words, and a text that
\* starts or ends with one has an empty first or last word.  first and
\* last are the positions where the runs of spaces start and end.
Split(text) ==
  LET first == {i \in 1 .. Len(text) :
                  text[i] = " " /\ (i = 1 \/ text[i - 1] # " ")}
      last == {i \in 1 .. Len(text) :
                 text[i] = " " /\ (i = Len(text) \/ text[i + 1] # " ")}
      n == Cardinality(first)
  IN [k \in 1 .. n + 1 |->
        SubSeq(text, IF k = 1 THEN 1 ELSE Kth(last, k - 1) + 1,
                     IF k = n + 1 THEN Len(text) ELSE Kth(first, k) - 1)]

\* PhonemeDetector.getPhonemePattern: every pattern is /^[c]/ for one
\* character c.
getPhonemePattern ==
  ("AA" :> "a") @@ ("AE" :> "a") @@ ("AH" :> "u") @@ ("AO" :> "o") @@
  ("AW" :> "o") @@ ("AY" :> "a") @@ ("EH" :> "e") @@ ("ER" :> "e") @@
  ("EY" :> "a") @@ ("IH" :> "i") @@ ("IY" :> "e") @@ ("OW" :> "o") @@
  ("OY" :> "o") @@ ("UH" :> "u") @@ ("UW" :> "u") @@
  ("B" :> "b") @@ ("CH" :> "c") @@ ("D" :> "d") @@ ("DH" :> "t") @@
  ("F" :> "f") @@ ("G" :> "g") @@ ("HH" :> "h") @@ ("JH" :> "j") @@
  ("K" :> "k") @@ ("L" :> "l") @@ ("M" :> "m") @@ ("N" :> "n") @@
  ("NG" :> "n") @@ ("P" :> "p") @@ ("R" :> "r") @@ ("S" :> "s") @@
  ("SH" :> "s") @@ ("T" :> "t") @@ ("TH" :> "t") @@ ("V" :> "v") @@
  ("W" :> "w") @@ ("Y" :> "y") @@ ("Z" :> "z") @@ ("ZH" :> "z")

\* The three lists PhonemeDetector.extractNextPhoneme tries, in order.
multiCharPhonemes == <<"CH", "DH", "HH", "JH", "NG", "SH", "TH", "ZH">>

singleCharPhonemes ==
  <<"B", "D", "F", "G", "K", "L", "M", "N", "P", "R", "S", "T", "V", "W",
    "Y", "Z">>

vowels ==
  <<"AA", "AE", "AH", "AO", "AW", "AY", "EH", "ER", "EY", "IH", "IY", "OW",
    "OY", "UH", "UW">>

\* The first phoneme of the list whose pattern matches a text that starts
\* with character c; "" when none does.
RECURSIVE FirstMatch(_, _)
FirstMatch(list, c) ==
  IF list = <<>> THEN ""
  ELSE IF getPhonemePattern[Head(list)] = c THEN Head(list)
  ELSE FirstMatch(Tail(list), c)

\* The result of extractNextPhoneme when nothing matches (null).
NoMatch == [phoneme |-> "", morphTarget |-> "", duration |-> 0, length |-> 0]

\* PhonemeDetector.extractNextPhoneme(word, i), i counted from 1.
PhonemeDetector_extractNextPhoneme(word, i) ==
  LET c == word[i]
  IN IF FirstMatch(multiCharPhonemes, c) # ""
     THEN [NoMatch EXCEPT !.phoneme = FirstMatch(multiCharPhonemes, c),
                          !.length = 2]
     ELSE IF FirstMatch(singleCharPhonemes, c) # ""
     THEN [NoMatch EXCEPT !.phoneme = FirstMatch(singleCharPhonemes, c),
                          !.length = 1]
     ELSE IF FirstMatch(vowels, c) # ""
     THEN [NoMatch EXCEPT !.phoneme = FirstMatch(vowels, c), !.length = 1]
     ELSE NoMatch

\* The position i of the loop of PhonemeDetector.wordToPhonemes after n
\* more iterations: "i += phonemeData.length" for a unit, "i++" when
\* nothing matches; the loop ends when i passes the end of the word.
RECURSIVE PhonemeDetector_loop(_, _, _)
PhonemeDetector_loop(word, i, n) ==
  IF n = 0 \/ i > Len(word) THEN i
  ELSE IF n = 1
  THEN (IF PhonemeDetector_extractNextPhoneme(word, i).length > 0
        THEN i + PhonemeDetector_extractNextPhoneme(word, i).length
        ELSE i + 1)
  ELSE PhonemeDetector_loop(word, PhonemeDetector_loop(word, i, n \div 2),
                            n - n \div 2)

\* PhonemeDetector.wordToPhonemes from position i on: the phoneme codes
\* pushed at the positions the loop visits.
PhonemeDetector_wordToPhonemes(word, i) ==
  LET at == [k \in 1 .. Len(word) - i + 1 |->
               PhonemeDetector_loop(word, i, k - 1)]
      found == SelectSeq(at, LAMBDA j :
                 /\ j <= Len(word)
                 /\ PhonemeDetector_extractNextPhoneme(word, j).length > 0)
  IN [k \in 1 .. Len(found) |->
        PhonemeDetector_extractNextPhoneme(word, found[k]).phoneme]

\* The elements PhonemeDetector.extractPhonemes pushes for the words from
\* index w on: each word's phonemes, and a pause after every word but the
\* last.
RECURSIVE WordElements(_, _)
WordElements(words, w) ==
  IF w > Len(words) THEN <<>>
  ELSE LET codes == PhonemeDetector_wordToPhonemes(words[w], 1)
       IN [k \in 1 .. Len(codes) |-> PhonemeData(codes[k])]
          \o (IF w < Len(words) THEN <<Pause(wordPause)>> ELSE <<>>)
          \o WordElements(words, w + 1)

\* The most elements extractPhonemes keeps: Math.min(25, ...).
maxPhonemes == 25

\* Math.max(8, Math.floor(text.length / 2))
MinEvents(len) == IF len \div 2 > minPhonemes THEN len \div 2 ELSE minPhonemes

\* Math.min(25, Math.floor(text.length * 1.5))
MaxEvents(len) ==
  IF (len * 3) \div 2 < maxPhonemes THEN (len * 3) \div 2 ELSE maxPhonemes

\* Math.ceil(a / b) for b > 0.
Ceil(a, b) == (a + b - 1) \div b

\* Every step-th element of the list, from the first on.
EveryNth(list, step) ==
  [k \in 1 .. Ceil(Len(list), step) |-> list[(k - 1) * step + 1]]

\* PhonemeDetector.extractPhonemes(text); picks are the Math.random() draws
\* of the padding loop.
PhonemeDetector_extractPhonemes(text, picks) ==
  LET phonemes == WordElements(Split(toLowerCase(text)), 1)
                  \o <<Pause(sentencePause)>>
  IN IF Len(phonemes) < MinEvents(Len(text))
     THEN Padded(phonemes, MinEvents(Len(text)), picks)
     ELSE IF Len(phonemes) > MaxEvents(Len(text))
     THEN EveryNth(phonemes, Ceil(Len(phonemes), MaxEvents(Len(text))))
     ELSE phonemes

\* The patterns ProfessionalLipSyncSystem.extractNextPhoneme tries first,
\* in order: a two-character prefix each.
patterns ==
  << [pattern |-> <<"t", "h">>, phoneme |-> "TH", morphTarget |-> "TH"],
     [pattern |-> <<"c", "h">>, phoneme |-> "CH", morphTarget |-> "Ch_J"],
     [pattern |-> <<"s", "h">>, phoneme |-> "SH", morphTarget |-> "S_Z"],
     [pattern |-> <<"n", "g">>, phoneme |-> "NG", morphTarget |-> "K_G_H_NG"],
     [pattern |-> <<"p", "h">>, phoneme |-> "F", morphTarget |-> "F_V"],
     [pattern |-> <<"w", "h">>, phoneme |-> "W", morphTarget |-> "W_OO"],
     [pattern |-> <<"q", "u">>, phoneme |-> "KW", morphTarget |-> "K_G_H_NG"],
     [pattern |-> <<"a", "i">>, phoneme |-> "AY", morphTarget |-> "Ah"],
     [pattern |-> <<"a", "y">>, phoneme |-> "AY", morphTarget |-> "Ah"],
     [pattern |-> <<"o", "i">>, phoneme |-> "OY", morphTarget |-> "W_OO"],
     [pattern |-> <<"o", "y">>, phoneme |-> "OY", morphTarget |-> "W_OO"],
     [pattern |-> <<"o", "u">>, phoneme |-> "OW", morphTarget |-> "Oh"],
     [pattern |-> <<"o", "w">>, phoneme |-> "OW", morphTarget |-> "Oh"],
     [pattern |-> <<"e", "e">>, phoneme |-> "IY", morphTarget |-> "EE"],
     [pattern |-> <<"e", "a">>, phoneme |-> "IY", morphTarget |-> "EE"],
     [pattern |-> <<"o", "o">>, phoneme |-> "UW", morphTarget |-> "W_OO"],
     [pattern |-> <<"a", "r">>, phoneme |-> "AR", morphTarget |-> "Ah"],
     [pattern |-> <<"e", "r">>, phoneme |-> "ER", morphTarget |-> "Er"],
     [pattern |-> <<"i", "r">>, phoneme |-> "ER", morphTarget |-> "Er"],
     [pattern |-> <<"u", "r">>, phoneme |-> "ER", morphTarget |-> "Er"],
     [pattern |-> <<"o", "r">>, phoneme |-> "OR", morphTarget |-> "Oh"],
     [pattern |-> <<"a", "w">>, phoneme |-> "AW", morphTarget |-> "W_OO"],
     [pattern |-> <<"a", "u">>, phoneme |-> "AW", morphTarget |-> "W_OO"] >>

\* The single-character table of ProfessionalLipSyncSystem.extractNextPhoneme:
\* <<phoneme, morphTarget, duration in ms>>.
charPhonemes ==
  ("a" :> <<"AE", "AE", 200>>) @@ ("e" :> <<"EH", "EE", 150>>) @@
  ("i" :> <<"IH", "IH", 150>>) @@ ("o" :> <<"AH", "Ah", 200>>) @@
  ("u" :> <<"UH", "W_OO", 150>>) @@ ("b" :> <<"B", "B_M_P", 100>>) @@
  ("c" :> <<"K", "K_G_H_NG", 100>>) @@ ("d" :> <<"D", "T_L_D_N", 100>>) @@
  ("f" :> <<"F", "F_V", 150>>) @@ ("g" :> <<"G", "K_G_H_NG", 100>>) @@
  ("h" :> <<"HH", "K_G_H_NG", 100>>) @@ ("j" :> <<"JH", "Ch_J", 100>>) @@
  ("k" :> <<"K", "K_G_H_NG", 100>>) @@ ("l" :> <<"L", "T_L_D_N", 150>>) @@
  ("m" :> <<"M", "B_M_P", 150>>) @@ ("n" :> <<"N", "T_L_D_N", 150>>) @@
  ("p" :> <<"P", "B_M_P", 100>>) @@ ("q" :> <<"K", "K_G_H_NG", 100>>) @@
  ("r" :> <<"R", "R", 150>>) @@ ("s" :> <<"S", "S_Z", 150>>) @@
  ("t" :> <<"T", "T_L_D_N", 100>>) @@ ("v" :> <<"V", "F_V", 150>>) @@
  ("w" :> <<"W", "W_OO", 150>>) @@ ("x" :> <<"KS", "K_G_H_NG", 100>>) @@
  ("y" :> <<"Y", "EE", 150>>) @@ ("z" :> <<"Z", "S_Z", 150>>)

\* pattern.test(remaining) for a two-character prefix pattern.
StartsWith(word, i, prefix) ==
  /\ i + 1 <= Len(word)
  /\ word[i] = prefix[1]
  /\ word[i + 1] = prefix[2]

\* A tokenizer that never tries the two-character patterns.
FirstPattern_Skipped(word, i, k) == 0

\* The first pattern from index k on that matches the word at position i;
\* 0 when none does.
RECURSIVE FirstPattern(_, _, _)
FirstPattern(word, i, k) ==
  IF k > Len(patterns) THEN 0
  ELSE IF StartsWith(word, i, patterns[k].pattern) THEN k
  ELSE FirstPattern(word, i, k + 1)

\* ProfessionalLipSyncSystem.extractNextPhoneme(word, startIndex), the index
\* counted from 1.
ProfessionalLipSyncSystem_extractNextPhoneme(word, startIndex) ==
  LET k == FirstPattern(word, startIndex, 1)
      char == word[startIndex]
  IN IF k > 0
     THEN [phoneme |-> patterns[k].phoneme,
           morphTarget |-> patterns[k].morphTarget,
           duration |-> 150, length |-> 2]
     ELSE IF char \in DOMAIN charPhonemes
     THEN [phoneme |-> charPhonemes[char][1],
           morphTarget |-> charPhonemes[char][2],
           duration |-> charPhonemes[char][3], length |-> 1]
     ELSE NoMatch

\* ProfessionalLipSyncSystem.wordToPhonemes from position i on.
RECURSIVE ProfessionalLipSyncSystem_wordToPhonemes(_, _)
ProfessionalLipSyncSystem_wordToPhonemes(word, i) ==
  IF i > Len(word) THEN <<>>
  ELSE LET p == ProfessionalLipSyncSystem_extractNextPhoneme(word, i)
       IN IF p.length > 0
          THEN <<[phoneme |-> p.phoneme, morphTarget |-> p.morphTarget,
                  duration |-> p.duration]>>
               \o ProfessionalLipSyncSystem_wordToPhonemes(word, i + p.length)
          ELSE ProfessionalLipSyncSystem_wordToPhonemes(word, i + 1)

\* The phonemes of the words from index w on.
RECURSIVE WordPhonemes(_, _)
WordPhonemes(words, w) ==
  IF w > Len(words) THEN <<>>
  ELSE ProfessionalLipSyncSystem_wordToPhonemes(words[w], 1)
       \o WordPhonemes(words, w + 1)

\* ProfessionalLipSyncSystem.extractPhonemes(text)
ProfessionalLipSyncSystem_extractPhonemes(text) ==
  WordPhonemes(Split(toLowerCase(text)), 1)

\* The phoneme lists ProfessionalLipSyncSystem.extractPhonemes returns for
\* the texts "", "o" and "e o".
ProfessionalPhonemeLists ==
  { <<>>,
    <<[phoneme |-> "AH", morphTarget |-> "Ah", duration |-> 200]>>,
    <<[phoneme |-> "EH", morphTarget |-> "EE", duration |-> 150],
      [phoneme |-> "AH", morphTarget |-> "Ah", duration |-> 200]>> }

\* What the audio element plays while the analyser is attached: nothing the
\* analyser can read, an open vowel, a sibilant.
Signals == {"silent", "vowel", "sibilant"}

\* ------------------------------------------------------------------------
\* State
\* ------------------------------------------------------------------------

VARIABLES
  now,              \* performance.now(), ms
  timers,           \* pending setTimeout callbacks
  nextTimer,        \* the handle the next setTimeout returns
  rafQueue,         \* callbacks requested for the next animation frame
  hidden,           \* document.visibilityState === 'hidden'
  painted,          \* the animation frame of this instant has run
  mainMesh,         \* this.mainMesh is set (the model has been set up)
  morphTargets,     \* this.morphTargets: blend-shape name -> slot
  influences,       \* this.mainMesh.morphTargetInfluences
  lipSyncTimeouts,  \* this.lipSyncTimeouts: handles of the session's timers
  isAnalyzing,      \* detector.isAnalyzing
  onVisemeChange,   \* PhonemeDetector.onVisemeChange is set
  audioSource,      \* detector.audioSource is connected
  currentViseme,    \* ProfessionalLipSyncSystem.currentViseme (smoothing)
  signal,           \* what the attached audio element plays
  generation,       \* history: number of sessions started so far
  events,           \* history: what acted since the latest session start
  cancels,          \* history: number of stop calls so far
  hides,            \* history: number of times the page was hidden
  unavailable,      \* history: the analysis found no readable signal
  call,             \* pure functions: the call under evaluation
  ret,              \* pure functions: its result
  returned,         \* pure functions: the call has returned
  isSpeaking,       \* this.isSpeaking
  audioElement,     \* this.audioElement and what the element is doing
  response          \* the playBabyResponse call in progress (and history)

vars ==
  <<now, timers, nextTimer, rafQueue, hidden, painted, mainMesh,
    morphTargets, influences, lipSyncTimeouts, isAnalyzing, onVisemeChange,
    audioSource, currentViseme, signal, generation, events, cancels, hides,
    unavailable, call, ret, returned, isSpeaking, audioElement, response>>

envVars == <<now, timers, nextTimer, rafQueue, hidden, painted, hides>>
meshVars == <<mainMesh, morphTargets>>
detectorVars == <<isAnalyzing, onVisemeChange, audioSource, currentViseme, signal>>
pureVars == <<call, ret, returned>>
speechVars == <<isSpeaking, audioElement, response>>

\* this.audioElement = null; an element records whether it exists, its
\* duration in ms (NaN until the metadata has loaded), paused, whether
\* currentTime is above 0 (started), whether playback has ended, whether
\* loading failed, and whether onended is set.
NoAudioElement ==
  [exists |-> FALSE, duration |-> NaN, paused |-> TRUE, started |-> FALSE,
   ended |-> FALSE, error |-> FALSE, onended |-> FALSE]

\* No playBabyResponse has been called.  pc is the await the call is
\* suspended at, phonemes what extractPhonemes(textContent) returns;
\* calls, fallbacks, thrown, unusable and polls are history.
NoResponse ==
  [calls |-> 0, pc |-> "idle", phonemes |-> <<>>, fallbacks |-> 0,
   thrown |-> FALSE, unusable |-> FALSE, polls |-> 0]

\* ------------------------------------------------------------------------
\* Browser scheduling
\* ------------------------------------------------------------------------

\* The delay setTimeout uses: NaN and negative delays run as 0.
SetTimeoutDelay(ms) == IF IsNaN(ms) \/ ms < 0 THEN 0 ELSE ms

\* A pending timer.  fn names the function its callback calls, data and
\* duration are the arguments the closure captured, gen the session that
\* scheduled it (history).
Timer(id, delay, fn, data, duration, gen) ==
  [id |-> id, due |-> now + SetTimeoutDelay(delay), fn |-> fn,
   data |-> data, duration |-> duration, gen |-> gen]

\* One entry of a schedule: a setTimeout call a start operation makes.
Entry(delay, fn, data, duration) ==
  [delay |-> delay, fn |-> fn, data |-> data, duration |-> duration]

\* The timers a schedule creates for session gen, handles in call order.
TimersOf(sched, gen) ==
  { Timer(nextTimer + i - 1, sched[i].delay, sched[i].fn, sched[i].data,
          sched[i].duration, gen) : i \in 1 .. Len(sched) }

HandlesOf(sched) == { nextTimer + i - 1 : i \in 1 .. Len(sched) }

\* lipSyncTimeouts.forEach(timeout => clearTimeout(timeout))
ClearTimeouts(handles) == { t \in timers : t.id \notin handles }

\* The timer the event loop runs next: the earliest due, oldest first.
IsNextTimer(t) ==
  /\ t \in timers
  /\ t.due <= now
  /\ \A u \in timers : u.due > t.due \/ (u.due = t.due /\ u.id >= t.id)

\* A callback waiting for the next animation frame.  handle marks the
\* request whose id PhonemeDetector.analysisInterval holds.
Callback(fn, duration, viseme, gen) ==
  [fn |-> fn, gen |-> gen, startTime |-> now, duration |-> duration,
   startWeights |-> influences, viseme |-> viseme, handle |-> FALSE]

NoViseme == Viseme("undefined", "undefined", NaN, NaN)

\* cancelAnimationFrame(this.analysisInterval)
CancelAnimationFrame(q) == SelectSeq(q, LAMBDA cb : ~cb.handle)

\* Operations invoked so far.
Ops == generation + cancels + hides

\* Something is scheduled: a timer or an animation-frame callback.
Pending == timers # {} \/ rafQueue # <<>>

\* Time passes while something is scheduled.  A timer that is due runs
\* before the clock moves on, and so does the animation frame of a visible
\* page; a hidden page gets no animation frames.
Advance ==
  /\ now < MaxTime
  /\ Pending
  /\ \A t \in timers : t.due > now
  /\ rafQueue = <<>> \/ painted \/ hidden
  /\ now' = now + Tick
  /\ painted' = FALSE
  /\ UNCHANGED <<timers, nextTimer, rafQueue, hidden, hides, meshVars,
                 influences, lipSyncTimeouts, detectorVars, generation,
                 events, cancels, unavailable, pureVars,
                 speechVars>>

\* The user switches away from the page, or back to it.
visibilitychange ==
  /\ Pending
  /\ hidden \/ Ops < MaxOps
  /\ hidden' = ~hidden
  /\ hides' = IF hidden THEN hides ELSE hides + 1
  /\ UNCHANGED <<now, timers, nextTimer, rafQueue, painted, meshVars,
                 influences, lipSyncTimeouts, detectorVars, generation,
                 events, cancels, unavailable, pureVars,
                 speechVars>>

\* ------------------------------------------------------------------------
\* InteractiveBabyCharacter: transitions
\* ------------------------------------------------------------------------

\* InteractiveBabyCharacter.resetAllMorphTargets: the influences it leaves.
resetAllMorphTargets == IF mainMesh THEN AllZero ELSE influences

\* The frame loop smoothTransitionToMorphTarget(morphTargetName, phoneme,
\* duration) requests, as a sequence of zero or one callback.  The morph
\* target name is not used; the viseme comes from the phoneme code.
smoothTransitionToMorphTarget(phoneme, duration, gen) ==
  IF ~mainMesh THEN <<>>
  ELSE <<Callback("smoothTransitionToMorphTarget", duration,
                  PhonemeDetector_getVisemeData(phoneme), gen)>>

\* The frame loop smoothTransitionToNeutral(duration) requests.
smoothTransitionToNeutral(duration, gen) ==
  IF ~mainMesh THEN <<>>
  ELSE <<Callback("smoothTransitionToNeutral", duration, NoViseme, gen)>>

\* Weight of one channel of a pulse:
\* startWeight + (targetWeight - startWeight) * easedProgress,
\* targetWeight = Math.min(1.0, intensity * factor), factor in tenths.
PulseWeight(startWeight, intensity, factor, bell) ==
  Add(OrZero(startWeight),
      Mul(Sub(MathMin(Scale, IF IsNaN(intensity) THEN NaN
                             ELSE (intensity * factor) \div 10),
              OrZero(startWeight)),
          bell))

\* One frame of the animate closure of smoothTransitionToMorphTarget: the
\* influences it leaves at time t.
MorphFrame(cb, t) ==
  LET bell == BellCurve(Progress(t - cb.startTime, cb.duration))
      v == cb.viseme
      withPrimary ==
        IF HasTarget(morphTargets, v.primary)
        THEN [AllZero EXCEPT ![morphTargets[v.primary]] =
                PulseWeight(cb.startWeights[morphTargets[v.primary]],
                            v.intensity, 12, bell)]
        ELSE AllZero
  IN IF Truthy(v.secondary) /\ HasTarget(morphTargets, v.secondary)
     THEN [withPrimary EXCEPT ![morphTargets[v.secondary]] =
             PulseWeight(cb.startWeights[morphTargets[v.secondary]],
                         v.intensity, 8, bell)]
     ELSE withPrimary

\* One frame of the animate closure of smoothTransitionToNeutral.
NeutralFrame(cb, t) ==
  LET eased == easeOutQuart(Progress(t - cb.startTime, cb.duration))
  IN [i \in Slots |->
        IF Greater(OrZero(cb.startWeights[i]), 50)
        THEN Mul(OrZero(cb.startWeights[i]), Sub(Scale, eased))
        ELSE 0]

\* if (progress < 1) requestAnimationFrame(animate)
LoopContinues(cb, t) == Less(Progress(t - cb.startTime, cb.duration), Scale)

\* ------------------------------------------------------------------------
\* PhonemeDetector: live analysis
\* ------------------------------------------------------------------------

\* What the analyser gives at one instant, summarised as the averages
\* getAverageFrequency computes over the four bands of detectVisemeFromAudio
\* (bytes, 0..255) and the sum of the bins above them.
Sample(l, m, h, u, r) == [low |-> l, mid |-> m, high |-> h, ultra |-> u, rest |-> r]

\* The spectrum the analyser reads for each signal.
SampleOf(sig) ==
  IF sig = "vowel" THEN Sample(60, 40, 10, 0, 0)
  ELSE IF sig = "sibilant" THEN Sample(0, 0, 40, 40, 20)
  ELSE Sample(0, 0, 0, 0, 0)

\* frequencyData.reduce((sum, value) => sum + value, 0) === 0
TotalEnergyIsZero(s) == s.low + s.mid + s.high + s.ultra + s.rest = 0

\* The object analysis hands to the viseme callback.
VisemeData(p, s, i, c) == [primary |-> p, secondary |-> s, intensity |-> i, confidence |-> c]

\* PhonemeDetector.classifyVisemeFromFrequencies; total4 is four times
\* totalIntensity.  The result is <<primary, secondary, intensity>>.
classifyVisemeFromFrequencies(lowFreq, midFreq, highFreq, ultraFreq, total4) ==
  IF lowFreq > 30 /\ midFreq > 25
  THEN (IF highFreq > 20 THEN <<"EE", "Mouth_Stretch_L", 800>>
        ELSE <<"Ah", "Jaw_Open", 700>>)
  ELSE IF highFreq > 25 \/ ultraFreq > 20
  THEN (IF ultraFreq > 25 THEN <<"S_Z", "Mouth_Stretch_L", 900>>
        ELSE IF highFreq > 30 THEN <<"F_V", "Mouth_Press_L", 800>>
        ELSE <<"T_L_D_N", "Jaw_Open", 600>>)
  ELSE IF lowFreq > 40 /\ midFreq < 15 THEN <<"B_M_P", "Mouth_Close", 900>>
  ELSE IF midFreq > 30 /\ lowFreq > 20 /\ highFreq < 15
  THEN <<"K_G_H_NG", "Jaw_Open", 700>>
  ELSE IF total4 < 40 THEN <<"Ah", "null", 200>>
  ELSE <<"Ah", "null", 300>>

\* PhonemeDetector.detectVisemeFromAudio: the classification with
\* confidence = Math.min(1.0, totalIntensity / 50).
detectVisemeFromAudio(s) ==
  LET total4 == s.low + s.mid + s.high + s.ultra
      c == classifyVisemeFromFrequencies(s.low, s.mid, s.high, s.ultra, total4)
  IN VisemeData(c[1], c[2], c[3], MathMin(Scale, total4 * 5))

\* obj.name for a property the object may lack.
Field(obj, name) == IF name \in DOMAIN obj THEN obj[name] ELSE "undefined"

\* InteractiveBabyCharacter.applyVisemeInRealTime: the influences it leaves.
\* It destructures primaryTarget and secondaryTarget from its argument.
Interactive_applyVisemeInRealTime(infl, visemeData) ==
  LET primaryTarget == Field(visemeData, "primaryTarget")
      secondaryTarget == Field(visemeData, "secondaryTarget")
      w == Mul(visemeData.intensity, visemeData.confidence)
      withPrimary ==
        IF Truthy(primaryTarget) /\ HasTarget(morphTargets, primaryTarget)
        THEN [infl EXCEPT ![morphTargets[primaryTarget]] = w]
        ELSE infl
  IN IF ~mainMesh THEN infl
     ELSE IF Truthy(secondaryTarget) /\ HasTarget(morphTargets, secondaryTarget)
     THEN [withPrimary EXCEPT ![morphTargets[secondaryTarget]] = (w * 7) \div 10]
     ELSE withPrimary

\* Whether applyVisemeInRealTime assigns any influence for this argument.
Interactive_visemeWrites(visemeData) ==
  /\ mainMesh
  /\ \/ (Truthy(Field(visemeData, "primaryTarget"))
          /\ HasTarget(morphTargets, Field(visemeData, "primaryTarget")))
     \/ (Truthy(Field(visemeData, "secondaryTarget"))
          /\ HasTarget(morphTargets, Field(visemeData, "secondaryTarget")))

\* The viseme stopAudioAnalysis reports through onVisemeChange.
StopViseme == VisemeData("Ah", "null", 0, 0)


\* ------------------------------------------------------------------------
\* The animation frame
\* ------------------------------------------------------------------------

ClearHandle(q) == [i \in 1 .. Len(q) |-> [q[i] EXCEPT !.handle = FALSE]]

\* The callback analyzeVisemesInRealTime requests for the next frame; its
\* request id is stored in analysisInterval.
AnalysisCallback(gen) ==
  [fn |-> "analyzeVisemesInRealTime", gen |-> gen, startTime |-> 0,
   duration |-> 0, startWeights |-> AllZero, viseme |-> NoViseme,
   handle |-> TRUE]

\* The history entries of one run of analyzeVisemesInRealTime with the
\* viseme callback set.
AnalysisEvents(gen, sig) ==
  {<<gen, "analysis">>} \cup
  (IF Interactive_visemeWrites(detectVisemeFromAudio(SampleOf(sig)))
   THEN {<<gen, "live">>} ELSE {})

\* One requested callback runs at time `now`.  acc carries the influences,
\* the callbacks requested for the following frame and the history.
RunCallback(cb, acc) ==
  IF cb.fn = "smoothTransitionToMorphTarget"
  THEN [infl |-> MorphFrame(cb, now),
        queue |-> IF LoopContinues(cb, now) THEN Append(acc.queue, cb) ELSE acc.queue,
        events |-> acc.events \cup {<<cb.gen, "pulse">>}]
  ELSE IF cb.fn = "smoothTransitionToNeutral"
  THEN [infl |-> NeutralFrame(cb, now),
        queue |-> IF LoopContinues(cb, now) THEN Append(acc.queue, cb) ELSE acc.queue,
        events |-> acc.events \cup {<<cb.gen, "fade">>}]
  ELSE \* PhonemeDetector.analyzeVisemesInRealTime
    IF ~isAnalyzing THEN acc
    ELSE [infl |-> IF onVisemeChange
                   THEN Interactive_applyVisemeInRealTime(
                          acc.infl, detectVisemeFromAudio(SampleOf(signal)))
                   ELSE acc.infl,
          queue |-> Append(ClearHandle(acc.queue), [cb EXCEPT !.handle = TRUE]),
          events |-> acc.events \cup {<<cb.gen, "analysis">>} \cup
                     (IF onVisemeChange
                         /\ Interactive_visemeWrites(detectVisemeFromAudio(SampleOf(signal)))
                      THEN {<<cb.gen, "live">>} ELSE {})]

RECURSIVE RunFrame(_, _)
RunFrame(q, acc) ==
  IF q = <<>> THEN acc
  ELSE RunFrame(Tail(q), RunCallback(Head(q), acc))

\* The browser runs an animation frame: every requested callback, in
\* request order, with the time of the frame.
Frame ==
  /\ rafQueue # <<>>
  /\ ~hidden
  /\ ~painted
  /\ LET r == RunFrame(rafQueue, [infl |-> influences, queue |-> <<>>, events |-> events])
     IN /\ influences' = r.infl
        /\ rafQueue' = r.queue
        /\ events' = r.events
  /\ painted' = TRUE
  /\ UNCHANGED <<now, timers, nextTimer, hidden, hides, meshVars,
                 lipSyncTimeouts, detectorVars, generation, cancels,
                 unavailable, pureVars,
                 speechVars>>

\* ------------------------------------------------------------------------
\* InteractiveBabyCharacter: text-path schedules
\* ------------------------------------------------------------------------

\* JS a / n for a count n > 0.
JsDiv(a, n) == IF IsNaN(a) THEN NaN ELSE a \div n

\* JS a * num / den.
Frac(a, num, den) == IF IsNaN(a) THEN NaN ELSE (a * num) \div den

\* JS i * a.
Times(i, a) == IF IsNaN(a) THEN NaN ELSE i * a

Onset(delay, phonemeData, transitionDuration) ==
  Entry(delay, "smoothTransitionToMorphTarget", phonemeData, transitionDuration)

Reset(delay, fadeDuration) ==
  Entry(delay, "smoothTransitionToNeutral", NoPhoneme, fadeDuration)

\* The setTimeout calls of startEnhancedTextBasedLipSync(phonemes, audioDuration).
EnhancedSchedule(phonemes, audioDuration) ==
  LET timePerPhoneme == JsDiv(audioDuration, Len(phonemes))
      transitionDuration == MathMin(200, Frac(timePerPhoneme, 7, 10))
  IN [i \in 1 .. Len(phonemes) |->
        Onset(Times(i - 1, timePerPhoneme), phonemes[i], transitionDuration)]
     \o <<Reset(Sub(audioDuration, 150), 600)>>

\* The setTimeout calls of startSimpleNonIntrusiveLipSync when
\* extractPhonemes returned phonemes.
NonIntrusiveSchedule(phonemes, audioDuration) ==
  LET timePerPhoneme == JsDiv(audioDuration, Len(phonemes))
      transitionDuration == MathMin(180, Frac(timePerPhoneme, 6, 10))
  IN [i \in 1 .. Len(phonemes) |->
        Onset(Times(i - 1, timePerPhoneme), phonemes[i], transitionDuration)]
     \o <<Reset(Sub(audioDuration, 100), 500)>>

\* A session starts with this schedule: the handles of lipSyncTimeouts are
\* cleared, the list is replaced by the new handles, all morph targets are
\* reset.
StartTextSession(sched) ==
  /\ timers' = ClearTimeouts(lipSyncTimeouts) \cup TimersOf(sched, generation + 1)
  /\ lipSyncTimeouts' = HandlesOf(sched)
  /\ nextTimer' = nextTimer + Len(sched)
  /\ influences' = resetAllMorphTargets
  /\ generation' = generation + 1
  /\ unavailable' = FALSE

\* InteractiveBabyCharacter.startEnhancedTextBasedLipSync
startEnhancedTextBasedLipSync(phonemes, audioDuration) ==
  /\ Ops < MaxOps
  /\ StartTextSession(EnhancedSchedule(phonemes, audioDuration))
  /\ events' = {}
  /\ UNCHANGED <<now, rafQueue, hidden, painted, hides, meshVars,
                 detectorVars, cancels, pureVars,
                 speechVars>>

\* InteractiveBabyCharacter.startSimpleNonIntrusiveLipSync; phonemes is what
\* extractPhonemes(textContent) returned.  Without a mesh it returns at once.
startSimpleNonIntrusiveLipSync(phonemes, audioDuration) ==
  /\ Ops < MaxOps
  /\ mainMesh
  /\ StartTextSession(NonIntrusiveSchedule(phonemes, audioDuration))
  /\ events' = {}
  /\ UNCHANGED <<now, rafQueue, hidden, painted, hides, meshVars,
                 detectorVars, cancels, pureVars,
                 speechVars>>

\* setupModel finds the face mesh and its morph target dictionary; the
\* model is loaded before the first response is played, or never.
setupModel ==
  /\ ~mainMesh
  /\ generation = 0
  /\ mainMesh' = TRUE
  /\ morphTargets' \in Dictionaries
  /\ UNCHANGED <<envVars, influences, lipSyncTimeouts, detectorVars,
                 generation, events, cancels, unavailable, pureVars,
                 speechVars>>

\* A phoneme-onset timer of the text path fires.
Timer_smoothTransitionToMorphTarget(t) ==
  /\ IsNextTimer(t)
  /\ t.fn = "smoothTransitionToMorphTarget"
  /\ timers' = timers \ {t}
  /\ rafQueue' = rafQueue \o smoothTransitionToMorphTarget(t.data.phoneme, t.duration, t.gen)
  /\ events' = events \cup (IF mainMesh THEN {<<t.gen, "onset">>} ELSE {})
  /\ UNCHANGED <<now, nextTimer, hidden, painted, hides, meshVars, influences,
                 lipSyncTimeouts, detectorVars, generation, cancels,
                 unavailable, pureVars,
                 speechVars>>

\* The reset timer of the text path fires.
Timer_smoothTransitionToNeutral(t) ==
  /\ IsNextTimer(t)
  /\ t.fn = "smoothTransitionToNeutral"
  /\ timers' = timers \ {t}
  /\ rafQueue' = rafQueue \o smoothTransitionToNeutral(t.duration, t.gen)
  /\ events' = events \cup (IF mainMesh THEN {<<t.gen, "reset">>} ELSE {})
  /\ UNCHANGED <<now, nextTimer, hidden, painted, hides, meshVars, influences,
                 lipSyncTimeouts, detectorVars, generation, cancels,
                 unavailable, pureVars,
                 speechVars>>

\* ------------------------------------------------------------------------
\* ProfessionalLipSyncSystem: live analysis
\* ------------------------------------------------------------------------

\* What analyzeAudioFrame computes from the spectrum before it classifies:
\* the four band intensities of calculateFrequencyBandIntensities and the
\* overall intensity of calculateOverallIntensity, per-mille.
Bands(l, m, h, u, o) == [low |-> l, mid |-> m, high |-> h, ultra |-> u, overall |-> o]

\* The band intensities of each signal.
BandsOf(sig) ==
  IF sig = "vowel" THEN Bands(300, 850, 200, 50, 750)
  ELSE IF sig = "sibilant" THEN Bands(100, 200, 650, 700, 400)
  ELSE Bands(0, 0, 0, 0, 0)

\* ProfessionalLipSyncSystem.detectVisemeFromFrequencyAnalysis, with
\* this.audioIntensity = b.overall.
detectVisemeFromFrequencyAnalysis(b) ==
  LET pc == IF b.high > 600 \/ b.ultra > 500
            THEN (IF b.ultra > 600 THEN <<"S_Z", MathMin(900, b.ultra)>>
                  ELSE IF b.high > 700 THEN <<"F_V", MathMin(800, b.high)>>
                  ELSE <<"Ah", 500>>)
            ELSE IF b.mid > 600
            THEN (IF b.mid > 800 THEN <<"EE", MathMin(900, b.mid)>>
                  ELSE IF b.mid > 700 THEN <<"Ah", MathMin(800, b.mid)>>
                  ELSE <<"Ah", 500>>)
            ELSE IF b.low > 600
            THEN (IF b.low > 800 THEN <<"B_M_P", MathMin(900, b.low)>>
                  ELSE IF b.low > 700 THEN <<"K_G_H_NG", MathMin(800, b.low)>>
                  ELSE <<"Ah", 500>>)
            ELSE <<"Ah", 500>>
      secondaryViseme == IF b.overall > 700 THEN "Jaw_Open"
                         ELSE IF b.high > 500 THEN "Mouth_Stretch_L"
                         ELSE "null"
  IN VisemeData(pc[1], secondaryViseme, b.overall, pc[2])

\* this.currentViseme: null until the first frame has been analysed.
NoCurrentViseme == [set |-> FALSE, intensity |-> 0, confidence |-> 0]

\* ProfessionalLipSyncSystem.applyVisemeSmoothing: the viseme it returns;
\* smoothingFactor is 0.8.
applyVisemeSmoothing(cur, v) ==
  IF ~cur.set THEN v
  ELSE VisemeData(v.primary, v.secondary,
                  (cur.intensity * 8 + v.intensity * 2) \div 10,
                  (cur.confidence * 8 + v.confidence * 2) \div 10)

\* The currentViseme applyVisemeSmoothing leaves.
Smoothed(cur, v) ==
  [set |-> TRUE,
   intensity |-> applyVisemeSmoothing(cur, v).intensity,
   confidence |-> applyVisemeSmoothing(cur, v).confidence]

\* ProfessionalLipSyncSystem.analyzeAudioFrame: the viseme handed to the
\* callback.
analyzeAudioFrame(cur, sig) ==
  applyVisemeSmoothing(cur, detectVisemeFromFrequencyAnalysis(BandsOf(sig)))

\* ------------------------------------------------------------------------
\* ProfessionalBabyCharacter
\* ------------------------------------------------------------------------

\* ProfessionalBabyCharacter.applyVisemeInRealTime: the influences it leaves.
Professional_applyVisemeInRealTime(infl, v) ==
  LET product == Mul(v.intensity, v.confidence)
      withPrimary ==
        IF Truthy(v.primary) /\ HasTarget(morphTargets, v.primary)
        THEN [AllZero EXCEPT ![morphTargets[v.primary]] =
                MathMin(Scale, (product * 12) \div 10)]
        ELSE AllZero
      withSecondary ==
        IF Truthy(v.secondary) /\ HasTarget(morphTargets, v.secondary)
        THEN [withPrimary EXCEPT ![morphTargets[v.secondary]] =
                MathMin(Scale, (product * 6) \div 10)]
        ELSE withPrimary
  IN IF ~mainMesh THEN infl
     ELSE IF HasTarget(morphTargets, "Jaw_Open")
     THEN [withSecondary EXCEPT ![morphTargets["Jaw_Open"]] =
             MathMin(Scale, (v.intensity * 8) \div 10)]
     ELSE withSecondary

\* ProfessionalBabyCharacter.applyPhoneme: the influences it leaves.  The
\* jaw is opened only inside the branch that found the morph target.
applyPhoneme(infl, phonemeData) ==
  IF ~mainMesh THEN infl
  ELSE IF Truthy(phonemeData.morphTarget)
          /\ HasTarget(morphTargets, phonemeData.morphTarget)
  THEN IF HasTarget(morphTargets, "Jaw_Open")
       THEN [[AllZero EXCEPT ![morphTargets[phonemeData.morphTarget]] = Scale]
               EXCEPT ![morphTargets["Jaw_Open"]] = 500]
       ELSE [AllZero EXCEPT ![morphTargets[phonemeData.morphTarget]] = Scale]
  ELSE AllZero

\* ProfessionalBabyCharacter.resetToNeutral: the influences it leaves.
resetToNeutral(infl) == IF mainMesh THEN AllZero ELSE infl

\* The setTimeout calls of startTextBasedLipSync for a non-empty phoneme
\* list: totalDuration is 2.0 s.
TextSchedule(phonemes) ==
  [i \in 1 .. Len(phonemes) |->
     Entry(((i - 1) * 2000) \div Len(phonemes), "applyPhoneme", phonemes[i], 0)]
  \o <<Entry(2000, "resetToNeutral", NoPhoneme, 0)>>

\* A pattern of ProfessionalBabyCharacter.startSimpleLipSync.
Pattern(target, delay) ==
  Entry(delay, "applyPhoneme",
        [phoneme |-> "", morphTarget |-> target, duration |-> 0], 0)

\* The setTimeout calls of ProfessionalBabyCharacter.startSimpleLipSync.
SimpleSchedule(duration) ==
  SelectSeq(<<Pattern("Ah", 0), Pattern("EE", 400), Pattern("Oh", 800),
              Pattern("Ah", 1200)>>,
            LAMBDA e : e.delay < duration)
  \o <<Entry(duration, "resetToNeutral", NoPhoneme, 0)>>

\* ------------------------------------------------------------------------
\* InteractiveBabyCharacter and PhonemeDetector: stopping, live analysis
\* ------------------------------------------------------------------------

\* InteractiveBabyCharacter.stopLipSync: without a mesh it returns at once;
\* otherwise it requests a 0.2 s fade and leaves timers and analysis alone.
Interactive_stopLipSync ==
  /\ Ops < MaxOps
  /\ mainMesh
  /\ cancels' = cancels + 1
  /\ rafQueue' = rafQueue \o smoothTransitionToNeutral(200, generation)
  /\ UNCHANGED <<now, timers, nextTimer, hidden, painted, hides, meshVars,
                 influences, lipSyncTimeouts, detectorVars, generation,
                 events, unavailable, pureVars,
                 speechVars>>

\* The history entry of the viseme callback stopAudioAnalysis invokes.
StopEvents == IF onVisemeChange THEN {<<generation, "callback">>} ELSE {}

\* The influences after stopAudioAnalysis has invoked the viseme callback.
StopInfluences(infl) ==
  IF onVisemeChange THEN Interactive_applyVisemeInRealTime(infl, StopViseme)
  ELSE infl

\* PhonemeDetector.stopAudioAnalysis, called by the page.
stopAudioAnalysis ==
  /\ Ops < MaxOps
  /\ cancels' = cancels + 1
  /\ isAnalyzing' = FALSE
  /\ rafQueue' = CancelAnimationFrame(rafQueue)
  /\ audioSource' = FALSE
  /\ influences' = StopInfluences(influences)
  /\ events' = events \cup StopEvents
  /\ UNCHANGED <<now, timers, nextTimer, hidden, painted, hides, meshVars,
                 lipSyncTimeouts, onVisemeChange, currentViseme, signal,
                 generation, unavailable, pureVars,
                 speechVars>>

\* The 100 ms check PhonemeDetector.startRealTimeVisemeAnalysis schedules:
\* with the analysis running and no energy in the spectrum it stops the
\* analysis and logs; nothing is thrown or returned to the caller.
Timer_corsCheck(t) ==
  /\ IsNextTimer(t)
  /\ t.fn = "corsCheck"
  /\ timers' = timers \ {t}
  /\ IF isAnalyzing /\ TotalEnergyIsZero(SampleOf(signal))
     THEN /\ isAnalyzing' = FALSE
          /\ rafQueue' = CancelAnimationFrame(rafQueue)
          /\ audioSource' = FALSE
          /\ influences' = StopInfluences(influences)
          /\ events' = events \cup StopEvents
          /\ unavailable' = TRUE
     ELSE UNCHANGED <<isAnalyzing, rafQueue, audioSource, influences, events,
                      unavailable>>
  /\ UNCHANGED <<now, nextTimer, hidden, painted, hides, meshVars,
                 lipSyncTimeouts, onVisemeChange, currentViseme, signal,
                 generation, cancels, pureVars,
                 speechVars>>

\* InteractiveBabyCharacter.startRealTimeVisemeAnalysis with the detector's
\* startRealTimeVisemeAnalysis inside it.  outcome is whether the detector
\* threw (no running audio context, or the element cannot be attached);
\* sig is what the element plays; phonemes and audioDuration are what the
\* catch block passes to the text path.
Interactive_startRealTimeVisemeAnalysis(outcome, sig, phonemes, audioDuration) ==
  /\ Ops < MaxOps
  /\ mainMesh
  /\ LET q == IF isAnalyzing THEN CancelAnimationFrame(rafQueue) ELSE rafQueue
         stopped == IF isAnalyzing THEN StopEvents ELSE {}
         infl == IF isAnalyzing THEN StopInfluences(resetAllMorphTargets)
                 ELSE resetAllMorphTargets
     IN IF outcome = "ok"
        THEN /\ timers' = ClearTimeouts(lipSyncTimeouts) \cup
                          {Timer(nextTimer, 100, "corsCheck", NoPhoneme, 0,
                                 generation + 1)}
             /\ nextTimer' = nextTimer + 1
             /\ lipSyncTimeouts' = {}
             /\ isAnalyzing' = TRUE
             /\ onVisemeChange' = TRUE
             /\ audioSource' = TRUE
             /\ signal' = sig
             /\ influences' = Interactive_applyVisemeInRealTime(
                                infl, detectVisemeFromAudio(SampleOf(sig)))
             /\ rafQueue' = Append(ClearHandle(q), AnalysisCallback(generation + 1))
             /\ generation' = generation + 1
             /\ events' = AnalysisEvents(generation + 1, sig)
             /\ unavailable' = FALSE
        ELSE /\ StartTextSession(EnhancedSchedule(phonemes, audioDuration))
             /\ isAnalyzing' = FALSE
             /\ audioSource' = IF isAnalyzing THEN FALSE ELSE audioSource
             /\ rafQueue' = q
             /\ events' = {}
             /\ UNCHANGED <<onVisemeChange, signal>>
  /\ UNCHANGED <<now, hidden, painted, hides, meshVars, currentViseme,
                 cancels, pureVars,
                 speechVars>>

\* ------------------------------------------------------------------------
\* InteractiveBabyCharacter with PhonemeDetector
\* ------------------------------------------------------------------------

\* The state after construction: no timers, no mesh until the model has
\* loaded, the detector idle.
InitEngine ==
  /\ now = 0
  /\ timers = {}
  /\ nextTimer = 1
  /\ rafQueue = <<>>
  /\ hidden = FALSE
  /\ painted = FALSE
  /\ mainMesh = FALSE
  /\ morphTargets = [n \in {} |-> 0]
  /\ influences = AllZero
  /\ lipSyncTimeouts = {}
  /\ isAnalyzing = FALSE
  /\ onVisemeChange = FALSE
  /\ audioSource = FALSE
  /\ currentViseme = NoCurrentViseme
  /\ signal = "silent"
  /\ generation = 0
  /\ events = {}
  /\ cancels = 0
  /\ hides = 0
  /\ unavailable = FALSE
  /\ isSpeaking = FALSE
  /\ audioElement = NoAudioElement
  /\ response = NoResponse

\* No call of a pure function is under evaluation.
NoCall == [detector |-> "", phoneme |-> ""]

Init ==
  /\ InitEngine
  /\ call = NoCall
  /\ ret = NoViseme
  /\ returned = FALSE

NextInteractive ==
  \/ setupModel
  \/ \E phonemes \in PhonemeLists, d \in AudioDurations :
       startEnhancedTextBasedLipSync(phonemes, d)
  \/ \E phonemes \in PhonemeLists, d \in AudioDurations :
       startSimpleNonIntrusiveLipSync(phonemes, d)
  \/ \E outcome \in {"ok", "throws"}, sig \in Signals,
        phonemes \in PhonemeLists, d \in AudioDurations :
       Interactive_startRealTimeVisemeAnalysis(outcome, sig, phonemes, d)
  \/ Interactive_stopLipSync
  \/ stopAudioAnalysis
  \/ \E t \in timers : Timer_smoothTransitionToMorphTarget(t)
  \/ \E t \in timers : Timer_smoothTransitionToNeutral(t)
  \/ \E t \in timers : Timer_corsCheck(t)
  \/ Frame
  \/ visibilitychange
  \/ Advance

SpecInteractive == Init /\ [][NextInteractive]_vars

\* ProfessionalBabyCharacter.startTextBasedLipSync; phonemes is what
\* lipSyncSystem.extractPhonemes(textContent) returned.  It calls
\* stopLipSync, then schedules the phonemes, or the simple pattern when
\* there are none.
Professional_startTextBasedLipSync(phonemes) ==
  /\ Ops < MaxOps
  /\ mainMesh
  /\ LET sched == IF Len(phonemes) = 0 THEN SimpleSchedule(2000)
                  ELSE TextSchedule(phonemes)
     IN /\ timers' = ClearTimeouts(lipSyncTimeouts) \cup TimersOf(sched, generation + 1)
        /\ lipSyncTimeouts' = HandlesOf(sched)
        /\ nextTimer' = nextTimer + Len(sched)
  /\ isAnalyzing' = FALSE
  /\ audioSource' = FALSE
  /\ influences' = resetToNeutral(influences)
  /\ generation' = generation + 1
  /\ events' = {}
  /\ UNCHANGED <<now, rafQueue, hidden, painted, hides, meshVars,
                 onVisemeChange, currentViseme, signal, cancels, unavailable,
                 pureVars,
                 speechVars>>

\* ProfessionalBabyCharacter.startPerfectLipSync on a page with a mesh and
\* a working audio context: the analyser is attached and the first frame is
\* analysed at once.  Timers of a running text session are not touched.
Professional_startPerfectLipSync(sig) ==
  /\ Ops < MaxOps
  /\ mainMesh
  /\ audioSource' = TRUE
  /\ isAnalyzing' = TRUE
  /\ signal' = sig
  /\ influences' = Professional_applyVisemeInRealTime(
                     influences, analyzeAudioFrame(currentViseme, sig))
  /\ currentViseme' = Smoothed(currentViseme,
                               detectVisemeFromFrequencyAnalysis(BandsOf(sig)))
  /\ timers' = timers \cup
               {Timer(nextTimer, 16, "analyzeAudioContinuously", NoPhoneme, 0,
                      generation + 1)}
  /\ nextTimer' = nextTimer + 1
  /\ generation' = generation + 1
  /\ events' = {<<generation + 1, "live">>}
  /\ UNCHANGED <<now, rafQueue, hidden, painted, hides, meshVars,
                 lipSyncTimeouts, onVisemeChange, cancels, unavailable,
                 pureVars,
                 speechVars>>

\* ProfessionalBabyCharacter.stopLipSync with
\* ProfessionalLipSyncSystem.stopAudioAnalysis inside it.
Professional_stopLipSync ==
  /\ Ops < MaxOps
  /\ cancels' = cancels + 1
  /\ timers' = ClearTimeouts(lipSyncTimeouts)
  /\ lipSyncTimeouts' = {}
  /\ isAnalyzing' = FALSE
  /\ audioSource' = FALSE
  /\ influences' = resetToNeutral(influences)
  /\ UNCHANGED <<now, nextTimer, rafQueue, hidden, painted, hides, meshVars,
                 onVisemeChange, currentViseme, signal, generation, events,
                 unavailable, pureVars,
                 speechVars>>

\* A phoneme timer of the professional text path fires.
Timer_applyPhoneme(t) ==
  /\ IsNextTimer(t)
  /\ t.fn = "applyPhoneme"
  /\ timers' = timers \ {t}
  /\ influences' = applyPhoneme(influences, t.data)
  /\ events' = events \cup (IF mainMesh THEN {<<t.gen, "onset">>} ELSE {})
  /\ UNCHANGED <<now, nextTimer, rafQueue, hidden, painted, hides, meshVars,
                 lipSyncTimeouts, detectorVars, generation, cancels,
                 unavailable, pureVars,
                 speechVars>>

\* The reset timer of the professional text path fires.
Timer_resetToNeutral(t) ==
  /\ IsNextTimer(t)
  /\ t.fn = "resetToNeutral"
  /\ timers' = timers \ {t}
  /\ influences' = resetToNeutral(influences)
  /\ events' = events \cup (IF mainMesh THEN {<<t.gen, "reset">>} ELSE {})
  /\ UNCHANGED <<now, nextTimer, rafQueue, hidden, painted, hides, meshVars,
                 lipSyncTimeouts, detectorVars, generation, cancels,
                 unavailable, pureVars,
                 speechVars>>

\* The 16 ms timer of ProfessionalLipSyncSystem.analyzeAudioContinuously
\* fires: with the analysis stopped it returns, otherwise it analyses one
\* frame, hands the viseme to applyVisemeInRealTime and re-arms itself.
Timer_analyzeAudioContinuously(t) ==
  /\ IsNextTimer(t)
  /\ t.fn = "analyzeAudioContinuously"
  /\ IF isAnalyzing
     THEN /\ timers' = (timers \ {t}) \cup
                       {Timer(nextTimer, 16, "analyzeAudioContinuously",
                              NoPhoneme, 0, t.gen)}
          /\ nextTimer' = nextTimer + 1
          /\ influences' = Professional_applyVisemeInRealTime(
                             influences, analyzeAudioFrame(currentViseme, signal))
          /\ currentViseme' = Smoothed(currentViseme,
                                detectVisemeFromFrequencyAnalysis(BandsOf(signal)))
          /\ events' = events \cup (IF mainMesh THEN {<<t.gen, "live">>} ELSE {})
     ELSE /\ timers' = timers \ {t}
          /\ UNCHANGED <<nextTimer, influences, currentViseme, events>>
  /\ UNCHANGED <<now, rafQueue, hidden, painted, hides, meshVars,
                 lipSyncTimeouts, isAnalyzing, onVisemeChange, audioSource,
                 signal, generation, cancels, unavailable, pureVars,
                 speechVars>>

NextProfessional ==
  \/ setupModel
  \/ \E phonemes \in ProfessionalPhonemeLists :
       Professional_startTextBasedLipSync(phonemes)
  \/ \E sig \in Signals : Professional_startPerfectLipSync(sig)
  \/ Professional_stopLipSync
  \/ \E t \in timers : Timer_applyPhoneme(t)
  \/ \E t \in timers : Timer_resetToNeutral(t)
  \/ \E t \in timers : Timer_analyzeAudioContinuously(t)
  \/ Advance

SpecProfessional == Init /\ [][NextProfessional]_vars

\* ------------------------------------------------------------------------
\* The viseme tables as pure functions
\* ------------------------------------------------------------------------

\* Codes no table has: the empty string, codes the tokenizers emit without
\* a table entry, and arbitrary text.
UnknownCodes == {"", "KW", "AR", "OR", "KS", "XX", "undefined", "Basis"}

\* The codes getVisemeData is called with.
Codes ==
  DOMAIN visemeSystem \cup DOMAIN audioVisemeMapping \cup UnknownCodes
    \cup ObjectPrototypeKeys

Detectors == {"PhonemeDetector", "ProfessionalLipSyncSystem"}

\* A call of getVisemeData is about to be made.
InitVisemeData ==
  /\ InitEngine
  /\ call \in [detector : Detectors, phoneme : Codes]
  /\ ret = NoViseme
  /\ returned = FALSE

\* PhonemeDetector.getVisemeData(call.phoneme) returns.
Call_PhonemeDetector_getVisemeData ==
  /\ ~returned
  /\ call.detector = "PhonemeDetector"
  /\ ret' = PhonemeDetector_getVisemeData(call.phoneme)
  /\ returned' = TRUE
  /\ UNCHANGED <<envVars, meshVars, influences, lipSyncTimeouts, detectorVars,
                 generation, events, cancels, unavailable, call,
                 speechVars>>

\* ProfessionalLipSyncSystem.getVisemeData(call.phoneme) returns.
Call_ProfessionalLipSyncSystem_getVisemeData ==
  /\ ~returned
  /\ call.detector = "ProfessionalLipSyncSystem"
  /\ ret' = ProfessionalLipSyncSystem_getVisemeData(call.phoneme)
  /\ returned' = TRUE
  /\ UNCHANGED <<envVars, meshVars, influences, lipSyncTimeouts, detectorVars,
                 generation, events, cancels, unavailable, call,
                 speechVars>>

NextVisemeData ==
  \/ Call_PhonemeDetector_getVisemeData
  \/ Call_ProfessionalLipSyncSystem_getVisemeData

SpecVisemeData == InitVisemeData /\ [][NextVisemeData]_vars

\* The table the called detector looks the code up in.
TableOf(detector) ==
  IF detector = "PhonemeDetector" THEN visemeSystem ELSE audioVisemeMapping

\* C7: getVisemeData returns, for every code that is not in the viseme
\* table, the neutral descriptor: the rest shape as primary, no secondary,
\* and a base intensity between 0.2 and 0.3.
C7_UnknownCodeIsNeutral ==
  (returned /\ call.phoneme \notin DOMAIN TableOf(call.detector)) =>
    /\ ret.primary = visemeSystem["rest"].primary
    /\ ret.secondary = "null"
    /\ ret.intensity \in 200 .. 300

\* ------------------------------------------------------------------------
\* The tokenizers as pure functions
\* ------------------------------------------------------------------------

\* Longest text of the exhaustively enumerated short texts.
MaxTextLen == 3

\* Size of the long texts: runs of one character.
LongLen == 26

\* The characters of the short texts: letters of "she", a vowel, a space
\* and a letter PhonemeDetector has no pattern for.
Alphabet == {"s", "h", "e", "a", " ", "x"}

\* "Hello baby"
HelloBaby == <<"H", "e", "l", "l", "o", " ", "b", "a", "b", "y">>

\* "she"
She == <<"s", "h", "e">>

\* n copies of character c.
Rep(c, n) == [i \in 1 .. n |-> c]

\* Every text of at most MaxTextLen characters, and "Hello baby".
Texts ==
  UNION {[1 .. n -> Alphabet] : n \in 0 .. MaxTextLen} \cup {HelloBaby}

\* Long texts: a run of "a" followed by a run of "x".
LongTexts ==
  { Rep("a", i) \o Rep("x", j) :
      i \in {0, LongLen}, j \in {0, LongLen - 1, 2 * LongLen + 8} }

\* Sequences of Math.random() draws long enough for the padding of a text.
DrawsFor(text) ==
  { [k \in 1 .. MinEvents(Len(text)) |-> (a * k + b) % 4] :
      a \in 0 .. 1, b \in 0 .. 1 }

\* The calls of the tokenizers.
TokenizerCalls ==
  { [detector |-> d, op |-> "wordToPhonemes", text |-> t, picks |-> <<>>] :
      d \in Detectors, t \in Texts }
  \cup
  { [detector |-> "ProfessionalLipSyncSystem", op |-> "extractPhonemes",
     text |-> t, picks |-> <<>>] : t \in Texts }
  \cup
  UNION { { [detector |-> "PhonemeDetector", op |-> "extractPhonemes",
             text |-> t, picks |-> p] : p \in DrawsFor(t) } :
          t \in Texts \cup LongTexts }

\* A call of a tokenizer is about to be made.
InitTokenize ==
  /\ InitEngine
  /\ call \in TokenizerCalls
  /\ ret = <<>>
  /\ returned = FALSE

\* The call returns this value.
Return(value) ==
  /\ ~returned
  /\ ret' = value
  /\ returned' = TRUE
  /\ UNCHANGED <<envVars, meshVars, influences, lipSyncTimeouts, detectorVars,
                 generation, events, cancels, unavailable, call,
                 speechVars>>

\* PhonemeDetector.wordToPhonemes(text.toLowerCase()) returns; each code is
\* shown as the element extractPhonemes builds from it.
Call_PhonemeDetector_wordToPhonemes ==
  /\ call.detector = "PhonemeDetector"
  /\ call.op = "wordToPhonemes"
  /\ LET codes == PhonemeDetector_wordToPhonemes(toLowerCase(call.text), 1)
     IN Return([k \in 1 .. Len(codes) |-> PhonemeData(codes[k])])

\* ProfessionalLipSyncSystem.wordToPhonemes(text.toLowerCase()) returns.
Call_ProfessionalLipSyncSystem_wordToPhonemes ==
  /\ call.detector = "ProfessionalLipSyncSystem"
  /\ call.op = "wordToPhonemes"
  /\ Return(ProfessionalLipSyncSystem_wordToPhonemes(toLowerCase(call.text), 1))

\* PhonemeDetector.extractPhonemes(text) returns.
Call_PhonemeDetector_extractPhonemes ==
  /\ call.detector = "PhonemeDetector"
  /\ call.op = "extractPhonemes"
  /\ Return(PhonemeDetector_extractPhonemes(call.text, call.picks))

\* ProfessionalLipSyncSystem.extractPhonemes(text) returns.
Call_ProfessionalLipSyncSystem_extractPhonemes ==
  /\ call.detector = "ProfessionalLipSyncSystem"
  /\ call.op = "extractPhonemes"
  /\ Return(ProfessionalLipSyncSystem_extractPhonemes(call.text))

NextTokenize ==
  \/ Call_PhonemeDetector_wordToPhonemes
  \/ Call_ProfessionalLipSyncSystem_wordToPhonemes
  \/ Call_PhonemeDetector_extractPhonemes
  \/ Call_ProfessionalLipSyncSystem_extractPhonemes

SpecTokenize == InitTokenize /\ [][NextTokenize]_vars

\* The phoneme codes and the blend shapes of a returned list.
CodesOf(list) == [k \in 1 .. Len(list) |-> list[k].phoneme]

ShapesOf(list) == [k \in 1 .. Len(list) |-> list[k].morphTarget]

\* A tokenizer has returned the phonemes of the word "she".
TokenizedShe ==
  /\ returned
  /\ call.op = "wordToPhonemes"
  /\ call.text = She

\* C12 as stated: tokenizing "she" yields the phoneme codes [SH, EE].
C12_SheIsShEe == TokenizedShe => CodesOf(ret) = <<"SH", "EE">>

\* C12: tokenizing "she" matches the digraph "sh" before the single "s" and
\* yields two phonemes, not three: the codes [SH, EH], whose blend shapes
\* are [S_Z, EE].
C12_SheIsShEh ==
  TokenizedShe =>
    /\ CodesOf(ret) = <<"SH", "EH">>
    /\ ShapesOf(ret) = <<"S_Z", "EE">>

\* C12: the professional tokenizer has tokenized "she".
C12_Witness == TokenizedShe /\ call.detector = "ProfessionalLipSyncSystem"

\* C14: the number of elements extractPhonemes returns lies within
\* [minEvents(len), maxEvents(len)] for the length len of its text.
C14_CountWithinBounds ==
  (returned /\ call.op = "extractPhonemes" /\ call.detector = "PhonemeDetector")
    => Len(ret) \in MinEvents(Len(call.text)) .. MaxEvents(Len(call.text))

\* ------------------------------------------------------------------------
\* The classifiers as pure functions of a spectrum
\* ------------------------------------------------------------------------

\* audioConfig.sampleRate and audioConfig.fftSize
sampleRate == 44100

fftSize == 2048

\* analyser.frequencyBinCount
frequencyBinCount == fftSize \div 2

\* audioConfig.frequencyBands, in Hz
frequencyBands ==
  [low |-> <<80, 400>>, mid |-> <<400, 2000>>, high |-> <<2000, 8000>>,
   ultra |-> <<8000, 22050>>]

\* Math.floor(freq / binSize) with binSize = sampleRate / (fftSize * 2)
BinOf(freq) == (freq * fftSize * 2) \div sampleRate

\* A spectrum (Uint8Array) of `length` bins: the bins below `cut` hold the
\* byte `below`, the others the byte `above`.  The cuts lie on the band
\* edges of detectVisemeFromAudio.
Spectra ==
  { [length |-> n, cut |-> c, below |-> x, above |-> y] :
      n \in {0, frequencyBinCount}, c \in {0, 50, 150, 300, 500},
      x \in {0, 30, 40, 200, 255}, y \in {0, 30, 40, 200, 255} }

\* The number of bins i with start <= i < end, i < data.length and
\* lo <= i < hi.
BinsIn(data, start, end, lo, hi) ==
  LET e == IF end < data.length THEN end ELSE data.length
      from == IF start > lo THEN start ELSE lo
      to == IF e < hi THEN e ELSE hi
  IN IF to > from THEN to - from ELSE 0

\* count and sum of the loop `for (i = start; i < end && i < data.length; i++)`
CountOf(data, start, end) == BinsIn(data, start, end, 0, data.length)

SumOf(data, start, end) ==
  data.below * BinsIn(data, start, end, 0, data.cut)
  + data.above * BinsIn(data, start, end, data.cut, data.length)

\* PhonemeDetector.getAverageFrequency, in bytes
getAverageFrequency(data, start, end) ==
  IF CountOf(data, start, end) > 0
  THEN SumOf(data, start, end) \div CountOf(data, start, end)
  ELSE 0

\* ProfessionalLipSyncSystem.calculateBandIntensity, per-mille rounded down;
\* endBin is included.
calculateBandIntensity(data, startBin, endBin) ==
  IF CountOf(data, startBin, endBin + 1) > 0
  THEN (SumOf(data, startBin, endBin + 1) * Scale)
         \div (CountOf(data, startBin, endBin + 1) * 255)
  ELSE 0

\* ProfessionalLipSyncSystem.calculateOverallIntensity, per-mille rounded
\* down: 0 / 0 for an empty spectrum.
calculateOverallIntensity(data) ==
  IF data.length = 0 THEN NaN
  ELSE (SumOf(data, 0, data.length) * Scale) \div (data.length * 255)

\* ProfessionalLipSyncSystem.calculateFrequencyBandIntensities, with the
\* audioIntensity analyzeAudioFrame stores next to it.
calculateFrequencyBandIntensities(data) ==
  LET band(b) == calculateBandIntensity(data, BinOf(frequencyBands[b][1]),
                                        BinOf(frequencyBands[b][2]))
  IN Bands(band("low"), band("mid"), band("high"), band("ultra"),
           calculateOverallIntensity(data))

\* The band averages detectVisemeFromAudio takes from a spectrum.
SampleFrom(data) ==
  Sample(getAverageFrequency(data, 0, 50), getAverageFrequency(data, 50, 150),
         getAverageFrequency(data, 150, 300),
         getAverageFrequency(data, 300, 500), SumOf(data, 500, data.length))

\* A call of a classifier on a spectrum is about to be made.
InitClassify ==
  /\ InitEngine
  /\ call \in {[detector |-> d, spectrum |-> s] : d \in Detectors, s \in Spectra}
  /\ ret = <<>>
  /\ returned = FALSE

\* PhonemeDetector.detectVisemeFromAudio(frequencyData) returns; overall is
\* its totalIntensity, in thousandths of a byte.
Call_detectVisemeFromAudio ==
  /\ call.detector = "PhonemeDetector"
  /\ LET s == SampleFrom(call.spectrum)
     IN Return([viseme |-> detectVisemeFromAudio(s),
                overall |-> ((s.low + s.mid + s.high + s.ultra) * Scale) \div 4])

\* ProfessionalLipSyncSystem.analyzeAudioFrame(frequencyData) returns, no
\* frame having been analysed before; overall is this.audioIntensity.
Call_analyzeAudioFrame ==
  /\ call.detector = "ProfessionalLipSyncSystem"
  /\ LET b == calculateFrequencyBandIntensities(call.spectrum)
     IN Return([viseme |-> applyVisemeSmoothing(NoCurrentViseme,
                             detectVisemeFromFrequencyAnalysis(b)),
                overall |-> b.overall])

NextClassify == Call_detectVisemeFromAudio \/ Call_analyzeAudioFrame

SpecClassify == InitClassify /\ [][NextClassify]_vars

\* C11: classifying an all-zero or an empty spectrum returns overall
\* intensity 0, confidence 0 and the neutral viseme (the rest
\* classification: primary Ah, no secondary).
C11_SilenceIsNeutral ==
  (returned /\ (call.spectrum.length = 0
                \/ (call.spectrum.below = 0 /\ call.spectrum.above = 0)))
    => /\ ret.overall = 0
       /\ ret.viseme.confidence = 0
       /\ ret.viseme.primary = "Ah"
       /\ ret.viseme.secondary = "null"

\* ------------------------------------------------------------------------
\* The text-path schedules as pure functions
\* ------------------------------------------------------------------------

\* The setTimeout calls of startLipSync(phonemes): each onset follows the
\* one before by that phoneme's own duration.
RECURSIVE LipSyncSchedule(_, _)
LipSyncSchedule(phonemes, currentTime) ==
  IF phonemes = <<>> THEN <<Reset(currentTime, 200)>>
  ELSE <<Onset(currentTime, Head(phonemes), 100)>>
       \o LipSyncSchedule(Tail(phonemes), currentTime + Head(phonemes).duration)

\* The first n elements: phonemes.slice(0, Math.min(phonemes.length, n))
Slice(phonemes, n) ==
  SubSeq(phonemes, 1, IF Len(phonemes) < n THEN Len(phonemes) ELSE n)

\* The setTimeout calls of handleShortAudio(phonemes, audioDuration).
ShortAudioSchedule(phonemes, audioDuration) ==
  LET keyPhonemes == Slice(phonemes, 5)
      timePerPhoneme == JsDiv(audioDuration, Len(keyPhonemes))
  IN [i \in 1 .. Len(keyPhonemes) |->
        Onset(Times(i - 1, timePerPhoneme), keyPhonemes[i], 50)]
     \o <<Reset(audioDuration, 100)>>

\* The setTimeout calls of startLipSyncWithAudioDuration(phonemes,
\* audioDuration), handleShortAudio included.
AudioDurationSchedule(phonemes, audioDuration) ==
  IF Less(audioDuration, 500) THEN ShortAudioSchedule(phonemes, audioDuration)
  ELSE LET limited == IF Greater(audioDuration, 10000)
                      THEN Slice(phonemes, 30) ELSE phonemes
           timePerPhoneme == JsDiv(audioDuration, Len(limited))
           transitionDuration == MathMin(80, Frac(timePerPhoneme, 3, 10))
           adjustedTimePerPhoneme == MathMax(timePerPhoneme, 60)
       IN [i \in 1 .. Len(limited) |->
             Onset(Times(i - 1, adjustedTimePerPhoneme), limited[i],
                   transitionDuration)]
          \o <<Reset(Sub(audioDuration, 50), 100)>>

\* simplePhonemes of InteractiveBabyCharacter.startSimpleLipSync
simplePhonemes ==
  << [morphTarget |-> "Ah", phoneme |-> "AA"],
     [morphTarget |-> "EE", phoneme |-> "EE"],
     [morphTarget |-> "Oh", phoneme |-> "OH"],
     [morphTarget |-> "Ah", phoneme |-> "AA"] >>

\* The setTimeout calls of InteractiveBabyCharacter.startSimpleLipSync.
InteractiveSimpleSchedule(audioDuration) ==
  LET timePerPhoneme == JsDiv(audioDuration, Len(simplePhonemes))
  IN [i \in 1 .. Len(simplePhonemes) |->
        Onset(Times(i - 1, timePerPhoneme), simplePhonemes[i], 200)]
     \o <<Reset(audioDuration, 500)>>

\* The setTimeout calls of ProfessionalBabyCharacter.startTextBasedLipSync
\* (textContent): without phonemes it calls startSimpleLipSync(2.0).
ProfessionalTextSchedule(textContent) ==
  LET phonemes == ProfessionalLipSyncSystem_extractPhonemes(textContent)
  IN IF Len(phonemes) = 0 THEN SimpleSchedule(2000) ELSE TextSchedule(phonemes)

\* "baby"
Baby == <<"b", "a", "b", "y">>

\* The phoneme lists the schedules are computed for: what extractPhonemes
\* returns for "a", "e u" and "Hello baby", the four phonemes of "baby",
\* and the empty list.
SchedulePhonemeLists ==
  PhonemeLists
  \cup { <<>>, PhonemeDetector_extractPhonemes(HelloBaby, <<>>),
         [k \in 1 .. 4 |->
            PhonemeData(PhonemeDetector_wordToPhonemes(Baby, 1)[k])] }

\* Audio durations in ms.
ScheduleDurations == {200, 400, 500, 800, 2000, 12000}

\* The scheduling operations of InteractiveBabyCharacter.
ScheduleOps ==
  {"startLipSync", "startLipSyncWithAudioDuration",
   "startEnhancedTextBasedLipSync", "startSimpleNonIntrusiveLipSync",
   "startSimpleLipSync"}

\* A scheduling operation is about to be called.
InitSchedule ==
  /\ InitEngine
  /\ call \in
       { [op |-> o, phonemes |-> p, audioDuration |-> d, text |-> <<>>] :
           o \in ScheduleOps, p \in SchedulePhonemeLists,
           d \in ScheduleDurations }
       \cup
       { [op |-> "startTextBasedLipSync", phonemes |-> <<>>,
          audioDuration |-> 2000, text |-> t] :
           t \in {<<>>, Baby, She, HelloBaby} }
  /\ ret = <<>>
  /\ returned = FALSE

\* Each operation returns the setTimeout calls it has made; the operations
\* that start with `if (!this.mainMesh) return` make them once the model has
\* loaded.
Call_startLipSync ==
  /\ mainMesh
  /\ call.op = "startLipSync"
  /\ Return(LipSyncSchedule(call.phonemes, 0))

Call_startLipSyncWithAudioDuration ==
  /\ mainMesh
  /\ call.op = "startLipSyncWithAudioDuration"
  /\ Return(AudioDurationSchedule(call.phonemes, call.audioDuration))

Call_startEnhancedTextBasedLipSync ==
  /\ call.op = "startEnhancedTextBasedLipSync"
  /\ Return(EnhancedSchedule(call.phonemes, call.audioDuration))

\* call.phonemes is what extractPhonemes(textContent) returned: without
\* phonemes the operation calls startSimpleLipSync(audioDuration).
Call_startSimpleNonIntrusiveLipSync ==
  /\ mainMesh
  /\ call.op = "startSimpleNonIntrusiveLipSync"
  /\ Return(IF Len(call.phonemes) = 0
            THEN InteractiveSimpleSchedule(call.audioDuration)
            ELSE NonIntrusiveSchedule(call.phonemes, call.audioDuration))

Call_Interactive_startSimpleLipSync ==
  /\ call.op = "startSimpleLipSync"
  /\ Return(InteractiveSimpleSchedule(call.audioDuration))

Call_Professional_startTextBasedLipSync ==
  /\ mainMesh
  /\ call.op = "startTextBasedLipSync"
  /\ Return(ProfessionalTextSchedule(call.text))

NextSchedule ==
  \/ setupModel
  \/ Call_startLipSync
  \/ Call_startLipSyncWithAudioDuration
  \/ Call_startEnhancedTextBasedLipSync
  \/ Call_startSimpleNonIntrusiveLipSync
  \/ Call_Interactive_startSimpleLipSync
  \/ Call_Professional_startTextBasedLipSync

SpecSchedule == InitSchedule /\ [][NextSchedule]_vars

\* A schedule has been computed by an operation that takes, or fixes, the
\* total duration.
ScheduledWithDuration == returned /\ call.op # "startLipSync"


\* C13: with a total duration of 2.0 s and four events the onsets are 0,
\* 0.5, 1.0 and 1.5 s and the reset fires at or before 1.95 s.
C13_OnsetsAndResetAtTwoSeconds ==
  (ScheduledWithDuration /\ call.audioDuration = 2000 /\ Len(ret) = 5)
    => /\ \A i \in 1 .. 4 : ret[i].delay = (i - 1) * 500
       /\ ret[5].delay <= 1950

\* C17: with a known total duration the return to neutral is scheduled so
\* that its fade has completed before the total duration has elapsed.
C17_ResetCompletesBeforeEnd ==
  ScheduledWithDuration =>
    ret[Len(ret)].delay + ret[Len(ret)].duration <= call.audioDuration

\* C18: the phoneme events of a schedule are ordered by onset and do not
\* overlap: each transition has finished before the next onset.
C18_OrderedNonOverlapping ==
  returned =>
    \A i \in 1 .. Len(ret) - 2 :
      ret[i].delay + ret[i].duration <= ret[i + 1].delay

\* ------------------------------------------------------------------------
\* InteractiveBabyCharacter: the text path without a known duration
\* ------------------------------------------------------------------------

\* extractPhonemes("Hello baby"): ten elements, so nothing is padded.
HelloBabyPhonemes == PhonemeDetector_extractPhonemes(HelloBaby, <<>>)

\* InteractiveBabyCharacter.startLipSync(phonemes).  Without a mesh it
\* returns at once.  call records the latest call and its time (history).
startLipSync(phonemes) ==
  /\ Ops < MaxOps
  /\ mainMesh
  /\ StartTextSession(LipSyncSchedule(phonemes, 0))
  /\ events' = {}
  /\ call' = [op |-> "startLipSync", phonemes |-> phonemes, at |-> now]
  /\ UNCHANGED <<now, rafQueue, hidden, painted, hides, meshVars,
                 detectorVars, cancels, ret, returned,
                 speechVars>>

NextTextPath ==
  \/ setupModel
  \/ \E phonemes \in PhonemeLists \cup {HelloBabyPhonemes} :
       startLipSync(phonemes)
  \/ \E t \in timers : Timer_smoothTransitionToMorphTarget(t)
  \/ \E t \in timers : Timer_smoothTransitionToNeutral(t)
  \/ Frame
  \/ Advance
  \/ visibilitychange

SpecTextPath == Init /\ [][NextTextPath]_vars

\* The first session of the character is the one startLipSync scheduled for
\* "Hello baby".
HelloBabyScheduled ==
  /\ generation = 1
  /\ call.phonemes = HelloBabyPhonemes

\* A frame has sampled the weights at the present time, which lies inside
\* the transition of the first event of the session.
SampledInsideFirstEvent ==
  /\ painted
  /\ now > call.at
  /\ now - call.at < LipSyncSchedule(call.phonemes, 0)[1].duration

PulseAtItsEnds(cb) ==
  /\ ~painted
  /\ ~hidden
  /\ cb.fn = "smoothTransitionToMorphTarget"
  /\ Progress(now - cb.startTime, cb.duration) \in {0, Scale}

\* C19: a phoneme pulse writes 0 on its primary and secondary blend shape
\* at progress 0 and at progress 1, whatever the weights were when it began.
C19_PulseStartsAndEndsAtZero ==
  \A k \in 1 .. Len(rafQueue) :
    PulseAtItsEnds(rafQueue[k]) =>
      \A name \in {rafQueue[k].viseme.primary, rafQueue[k].viseme.secondary} :
        HasTarget(morphTargets, name)
          => MorphFrame(rafQueue[k], now)[morphTargets[name]] = 0

\* ------------------------------------------------------------------------
\* InteractiveBabyCharacter.playBabyResponse
\* ------------------------------------------------------------------------

\* Rounds of the 'is playing' poll that are followed after the first.  The
\* code polls on every 100 ms without end; a further round of a poll that
\* has failed changes nothing but the clock and the timer handle.
MaxPolls == 2

\* The audio loading timeout and the interval of the poll, ms.
loadTimeout == 10000

pollInterval == 100

\* A text session starts with this schedule while the timers in `pending`
\* are pending: StartTextSession for a caller that is itself a timer.
StartSessionFrom(pending, sched) ==
  /\ timers' = {t \in pending : t.id \notin lipSyncTimeouts}
               \cup TimersOf(sched, generation + 1)
  /\ lipSyncTimeouts' = HandlesOf(sched)
  /\ nextTimer' = nextTimer + Len(sched)
  /\ influences' = resetAllMorphTargets
  /\ generation' = generation + 1
  /\ unavailable' = FALSE
  /\ events' = {}

\* No session starts.
KeepSession(pending) ==
  /\ timers' = pending
  /\ UNCHANGED <<lipSyncTimeouts, nextTimer, influences, generation,
                 unavailable, events>>

\* triggerTextBasedFallback(textContent): extractPhonemes returns at least
\* the final pause, so startEnhancedTextBasedLipSync is the branch taken.
\* Its argument this.audioElement.duration throws a TypeError while
\* this.audioElement is null, before anything is started.
triggerTextBasedFallback(pending) ==
  IF audioElement.exists
  THEN StartSessionFrom(pending, EnhancedSchedule(response.phonemes,
                                                  audioElement.duration))
  ELSE KeepSession(pending)

\* The response after triggerTextBasedFallback has been called because the
\* audio cannot be used, the call ending at pc.
AfterFallback(pc) ==
  [response EXCEPT
     !.pc = IF audioElement.exists THEN pc ELSE "rejected",
     !.fallbacks = IF audioElement.exists THEN @ + 1 ELSE @,
     !.thrown = @ \/ ~audioElement.exists,
     !.unusable = TRUE]

\* playBabyResponse(audioUrl, textContent) is called, no earlier call being
\* in progress and the mouth being at rest, and awaits
\* checkAudioUrlAccessibility.
Interactive_playBabyResponse(phonemes) ==
  /\ response.pc \in {"idle", "done", "rejected"}
  /\ ~Pending
  /\ response.calls < MaxOps
  /\ response' = [NoResponse EXCEPT !.calls = response.calls + 1,
                                    !.pc = "checkAudioUrlAccessibility",
                                    !.phonemes = phonemes]
  /\ UNCHANGED <<envVars, meshVars, influences, lipSyncTimeouts, detectorVars,
                 generation, events, cancels, unavailable, pureVars,
                 isSpeaking, audioElement>>

\* The URL is not accessible: the fallback is triggered and the call
\* returns.
UrlNotAccessible ==
  /\ response.pc = "checkAudioUrlAccessibility"
  /\ triggerTextBasedFallback(timers)
  /\ response' = AfterFallback("done")
  /\ UNCHANGED <<now, rafQueue, hidden, painted, hides, meshVars,
                 detectorVars, cancels, pureVars, isSpeaking, audioElement>>

\* The URL is accessible: the Audio element is created, its handlers are
\* set and the call awaits loadedmetadata under the 10 s timeout.
UrlAccessible ==
  /\ response.pc = "checkAudioUrlAccessibility"
  /\ audioElement' = [NoAudioElement EXCEPT !.exists = TRUE]
  /\ timers' = timers \cup
               {Timer(nextTimer, loadTimeout, "loadTimeout", NoPhoneme, 0,
                      generation)}
  /\ nextTimer' = nextTimer + 1
  /\ response' = [response EXCEPT !.pc = "loadedmetadata"]
  /\ UNCHANGED <<now, rafQueue, hidden, painted, hides, meshVars, influences,
                 lipSyncTimeouts, detectorVars, generation, events, cancels,
                 unavailable, pureVars, isSpeaking>>

\* audioElement.onloadedmetadata: the timeout is cleared and play() is
\* called and awaited.
onloadedmetadata ==
  /\ response.pc = "loadedmetadata"
  /\ ~audioElement.error
  /\ \E d \in AudioDurations \ {NaN} :
       audioElement' = [audioElement EXCEPT !.duration = d]
  /\ timers' = {t \in timers : t.fn # "loadTimeout"}
  /\ response' = [response EXCEPT !.pc = "play"]
  /\ UNCHANGED <<now, nextTimer, rafQueue, hidden, painted, hides, meshVars,
                 influences, lipSyncTimeouts, detectorVars, generation,
                 events, cancels, unavailable, pureVars, isSpeaking>>

\* audioElement.onerror while the element loads: the handler triggers the
\* fallback; it neither clears the timeout nor rejects the awaited promise.
onerror ==
  /\ response.pc = "loadedmetadata"
  /\ ~audioElement.error
  /\ audioElement' = [audioElement EXCEPT !.error = TRUE]
  /\ triggerTextBasedFallback(timers)
  /\ response' = AfterFallback(response.pc)
  /\ UNCHANGED <<now, rafQueue, hidden, painted, hides, meshVars,
                 detectorVars, cancels, pureVars, isSpeaking>>

\* The 10 s timeout fires: the awaited promise is rejected and the catch
\* block triggers the fallback and clears isSpeaking.
Timer_loadTimeout(t) ==
  /\ IsNextTimer(t)
  /\ t.fn = "loadTimeout"
  /\ triggerTextBasedFallback(timers \ {t})
  /\ response' = AfterFallback("done")
  /\ isSpeaking' = FALSE
  /\ UNCHANGED <<now, rafQueue, hidden, painted, hides, meshVars,
                 detectorVars, cancels, pureVars, audioElement>>

\* The animation starts once the audio is found playing:
\* startSimpleNonIntrusiveLipSync(textContent, audioElement.duration), which
\* returns at once without a mesh, and then onended is set; the call awaits
\* the end of the audio.
AnimationStarts(pending, element) ==
  /\ IF mainMesh
     THEN StartSessionFrom(pending, NonIntrusiveSchedule(response.phonemes,
                                                         element.duration))
     ELSE KeepSession(pending)
  /\ audioElement' = [element EXCEPT !.onended = TRUE]
  /\ response' = [response EXCEPT !.pc = "onended"]

\* play() resolves: isSpeaking is set and checkAudioPlaying runs for the
\* first time; currentTime may or may not have moved yet.
PlayResolved(started) ==
  /\ response.pc = "play"
  /\ isSpeaking' = TRUE
  /\ LET element == [audioElement EXCEPT !.paused = FALSE, !.started = started]
     IN IF started
        THEN AnimationStarts(timers, element)
        ELSE /\ audioElement' = element
             /\ timers' = timers \cup
                          {Timer(nextTimer, pollInterval, "checkAudioPlaying",
                                 NoPhoneme, 0, generation)}
             /\ nextTimer' = nextTimer + 1
             /\ response' = [response EXCEPT !.pc = "checkAudioPlaying"]
             /\ UNCHANGED <<lipSyncTimeouts, influences, generation,
                            unavailable, events>>
  /\ UNCHANGED <<now, rafQueue, hidden, painted, hides, meshVars,
                 detectorVars, cancels, pureVars>>

\* play() rejects: the inner catch triggers the fallback and returns.
PlayRejected ==
  /\ response.pc = "play"
  /\ triggerTextBasedFallback(timers)
  /\ response' = AfterFallback("done")
  /\ UNCHANGED <<now, rafQueue, hidden, painted, hides, meshVars,
                 detectorVars, cancels, pureVars, isSpeaking, audioElement>>

\* The poll timer fires: checkAudioPlaying.  An element that has been
\* playing for the 100 ms of the interval has moved its currentTime.  The
\* poll re-arms itself for as long as the audio is paused or at 0.
Timer_checkAudioPlaying(t) ==
  /\ IsNextTimer(t)
  /\ t.fn = "checkAudioPlaying"
  /\ audioElement.paused \/ audioElement.started
  /\ IF ~audioElement.paused /\ audioElement.started
     THEN AnimationStarts(timers \ {t}, audioElement)
     ELSE /\ IF response.polls < MaxPolls
             THEN /\ timers' = (timers \ {t}) \cup
                               {Timer(nextTimer, pollInterval,
                                      "checkAudioPlaying", NoPhoneme, 0,
                                      generation)}
                  /\ nextTimer' = nextTimer + 1
             ELSE /\ timers' = timers \ {t}
                  /\ UNCHANGED nextTimer
          /\ response' = [response EXCEPT !.polls = @ + 1]
          /\ UNCHANGED <<lipSyncTimeouts, influences, generation, unavailable,
                         events, audioElement>>
  /\ UNCHANGED <<now, rafQueue, hidden, painted, hides, meshVars,
                 detectorVars, cancels, pureVars, isSpeaking>>

\* The playing element moves its currentTime above 0.
timeupdate ==
  /\ audioElement.exists
  /\ ~audioElement.paused
  /\ ~audioElement.ended
  /\ ~audioElement.started
  /\ audioElement' = [audioElement EXCEPT !.started = TRUE]
  /\ UNCHANGED <<envVars, meshVars, influences, lipSyncTimeouts, detectorVars,
                 generation, events, cancels, unavailable, pureVars,
                 isSpeaking, response>>

\* The playing element is paused by the browser or the user.
pause ==
  /\ audioElement.exists
  /\ ~audioElement.paused
  /\ ~audioElement.ended
  /\ audioElement' = [audioElement EXCEPT !.paused = TRUE]
  /\ UNCHANGED <<envVars, meshVars, influences, lipSyncTimeouts, detectorVars,
                 generation, events, cancels, unavailable, pureVars,
                 isSpeaking, response>>

\* Playback reaches the end: 'ended' is fired, and the element is left
\* paused or not, depending on the browser.  With onended set, the handler
\* calls stopLipSync, clears isSpeaking and lets the call return.
ended(leftPaused) ==
  /\ audioElement.exists
  /\ ~audioElement.paused
  /\ audioElement.started
  /\ ~audioElement.ended
  /\ audioElement' = [audioElement EXCEPT !.ended = TRUE,
                                          !.paused = leftPaused]
  /\ IF audioElement.onended
     THEN /\ rafQueue' = rafQueue \o smoothTransitionToNeutral(200, generation)
          /\ cancels' = cancels + 1
          /\ isSpeaking' = FALSE
          /\ response' = [response EXCEPT !.pc = "done"]
     ELSE UNCHANGED <<rafQueue, cancels, isSpeaking, response>>
  /\ UNCHANGED <<now, timers, nextTimer, hidden, painted, hides, meshVars,
                 influences, lipSyncTimeouts, detectorVars, generation,
                 events, unavailable, pureVars>>

\* The earliest time a pending timer is due.
NextDue == CHOOSE d \in {t.due : t \in timers} : \A t \in timers : t.due >= d

\* Time passes to the time the next timer is due, and without a timer to
\* the next animation frame of a running frame loop.
Elapse ==
  /\ Pending
  /\ \A t \in timers : t.due > now
  /\ rafQueue = <<>> \/ painted
  /\ now' = IF timers # {} THEN NextDue ELSE now + Tick
  /\ painted' = FALSE
  /\ UNCHANGED <<timers, nextTimer, rafQueue, hidden, hides, meshVars,
                 influences, lipSyncTimeouts, detectorVars, generation,
                 events, cancels, unavailable, pureVars, speechVars>>

\* What the page and the browser do once a response has been requested.
ResponseStep ==
  \/ UrlNotAccessible
  \/ UrlAccessible
  \/ onloadedmetadata
  \/ onerror
  \/ \E t \in timers : Timer_loadTimeout(t)
  \/ \E started \in BOOLEAN : PlayResolved(started)
  \/ PlayRejected
  \/ \E t \in timers : Timer_checkAudioPlaying(t)
  \/ timeupdate
  \/ \E leftPaused \in BOOLEAN : ended(leftPaused)
  \/ \E t \in timers : Timer_smoothTransitionToMorphTarget(t)
  \/ \E t \in timers : Timer_smoothTransitionToNeutral(t)
  \/ Frame
  \/ Elapse

NextResponse ==
  \/ setupModel
  \/ \E phonemes \in PhonemeLists : Interactive_playBabyResponse(phonemes)
  \/ pause
  \/ ResponseStep

SpecResponse == Init /\ [][NextResponse]_vars

\* The event loop runs what is due, promises settle, and audio that is
\* playing moves on and reaches its end.
SpecResponseFair == SpecResponse /\ WF_vars(ResponseStep)

\* ------------------------------------------------------------------------
\* SimpleBabyCharacter: playBabyResponse and testLipSyncSystem
\* ------------------------------------------------------------------------

\* playBabyResponse stops the lip-sync 3 s after it started it,
\* testLipSyncSystem after 5 s.
responseStopDelay == 3000
testStopDelay == 5000

\* The visemes SimpleLipSyncSystem hands to the callback, and the intensities.
SimpleVisemes == {"Ah", "Jaw_Open"}
SimpleIntensities == {500, 1000}

\* SimpleBabyCharacter.applyMorphTarget for a blend shape that has no
\* left or right side: the slot of a known name is written, an unknown
\* name is skipped.
Simple_applyMorphTarget(morphTarget, value) ==
  IF mainMesh /\ HasTarget(morphTargets, morphTarget)
  THEN [influences EXCEPT ![morphTargets[morphTarget]] = value]
  ELSE influences

\* setTimeout(() => { this.stopLipSync(); this.isSpeaking = false; }, delay):
\* the handle is not kept.  gen is the response that set the timer.
StopTimer(delay, gen) ==
  Timer(nextTimer, delay, "stopLipSync", NoPhoneme, 0, gen)

\* SimpleBabyCharacter.playBabyResponse: startSimpleLipSync starts the
\* lip-sync when the model is loaded, isSpeaking is set, and the stop is
\* scheduled.  generation counts the responses and tests started.
Simple_playBabyResponse ==
  /\ generation < MaxOps
  /\ generation' = generation + 1
  /\ isSpeaking' = TRUE
  /\ timers' = timers \cup {StopTimer(responseStopDelay, generation + 1)}
  /\ nextTimer' = nextTimer + 1
  /\ UNCHANGED <<now, rafQueue, hidden, painted, hides, meshVars, influences,
                 lipSyncTimeouts, detectorVars, events, cancels, unavailable,
                 pureVars, audioElement, response>>

\* SimpleBabyCharacter.testLipSyncSystem: returns at once without a model.
testLipSyncSystem ==
  /\ mainMesh
  /\ generation < MaxOps
  /\ generation' = generation + 1
  /\ isSpeaking' = TRUE
  /\ timers' = timers \cup {StopTimer(testStopDelay, generation + 1)}
  /\ nextTimer' = nextTimer + 1
  /\ UNCHANGED <<now, rafQueue, hidden, painted, hides, meshVars, influences,
                 lipSyncTimeouts, detectorVars, events, cancels, unavailable,
                 pureVars, audioElement, response>>

\* The callback startSimpleLipSync gave to the lip-sync system is called
\* with a viseme of the running sequence.
onViseme(visemeName, intensity) ==
  /\ mainMesh
  /\ generation > 0
  /\ influences' = Simple_applyMorphTarget(visemeName, intensity)
  /\ influences' # influences
  /\ UNCHANGED <<envVars, meshVars, lipSyncTimeouts, detectorVars, generation,
                 events, cancels, unavailable, pureVars, speechVars>>

\* SimpleBabyCharacter.resetToNeutral
Simple_resetToNeutral == IF mainMesh THEN AllZero ELSE influences

\* A stop timer fires: stopLipSync clears the kept timers and resets the
\* weights, then isSpeaking is cleared.
Timer_stopLipSync(t) ==
  /\ IsNextTimer(t)
  /\ t.fn = "stopLipSync"
  /\ timers' = ClearTimeouts(lipSyncTimeouts) \ {t}
  /\ lipSyncTimeouts' = {}
  /\ influences' = Simple_resetToNeutral
  /\ isSpeaking' = FALSE
  /\ UNCHANGED <<now, nextTimer, rafQueue, hidden, painted, hides, meshVars,
                 detectorVars, generation, events, cancels, unavailable,
                 pureVars, audioElement, response>>

NextSimple ==
  \/ setupModel
  \/ Simple_playBabyResponse
  \/ testLipSyncSystem
  \/ \E visemeName \in SimpleVisemes, intensity \in SimpleIntensities :
       onViseme(visemeName, intensity)
  \/ \E t \in timers : Timer_stopLipSync(t)
  \/ Advance
  \/ Elapse

SpecSimple == Init /\ [][NextSimple]_vars

\* ------------------------------------------------------------------------
\* Properties of the interactive engine
\* ------------------------------------------------------------------------

\* A session has been started and nothing is scheduled or running any more.
Quiescent == generation > 0 /\ timers = {} /\ rafQueue = <<>> /\ ~isAnalyzing

\* No session is active: nothing scheduled, no analysis running.
Idle == timers = {} /\ rafQueue = <<>> /\ ~isAnalyzing

\* C2: once a new session has started, no bell-curve or fade frame loop that
\* an earlier session began writes weights any more: every frame-loop write
\* since the latest start belongs to the latest session.
C2_NoStaleFrameLoop ==
  \A e \in events :
    (e[2] \in {"pulse", "fade"} /\ e[1] > 0) => e[1] = generation

\* C3: every blend-shape weight applied to the mesh lies in [0, 1].
C3_WeightsInUnitInterval ==
  \A i \in Slots : influences[i] \in 0 .. Scale

\* C4: when a session has ended the mesh is all-neutral: with nothing left
\* scheduled or running, every weight is 0.
C4_EndsNeutral == Quiescent => influences = AllZero

\* C9: a stop call on an idle engine is a no-op: it changes no state, invokes
\* no callback and writes no weight.
C9_IdleCancelIsNoOp ==
  [][(cancels' # cancels /\ Idle) =>
       UNCHANGED <<timers, rafQueue, influences, events, detectorVars>>]_vars

\* C10: a live analysis that found no readable signal is answered by the
\* text path: the engine never comes to rest in that condition with no text
\* session started.
C10_UnavailableFallsBack == ~(unavailable /\ timers = {} /\ rafQueue = <<>>)

\* ------------------------------------------------------------------------
\* Properties of the professional engine
\* ------------------------------------------------------------------------

\* C1: once a new session has started, no timer that an earlier session
\* scheduled applies weights any more: every timer-driven weight application
\* since the latest start belongs to the latest session.
C1_NoStaleTimer ==
  \A e \in events : e[2] \in {"onset", "reset"} => e[1] = generation

\* C5: a stop call never takes a weight from above zero to zero in one
\* step; the weights fade.
C5_CancelFades ==
  [][cancels' # cancels =>
       \A i \in Slots : influences[i] > 0 => influences'[i] > 0]_vars

\* C6: the live path and the text path are never active together: while the
\* analysis runs no timer of a text session is pending.
C6_LiveAndTextExclusive ==
  ~(isAnalyzing /\ \E t \in timers : t.fn \in {"applyPhoneme", "resetToNeutral"})

\* A phoneme timer is about to apply a phoneme whose blend shape the mesh
\* lacks, on a mesh that has the jaw shape.
AppliesAbsentShape(t) ==
  /\ IsNextTimer(t)
  /\ t.fn = "applyPhoneme"
  /\ timers' = timers \ {t}
  /\ mainMesh
  /\ ~HasTarget(morphTargets, t.data.morphTarget)
  /\ HasTarget(morphTargets, "Jaw_Open")

\* C8: when a blend shape named by a phoneme is absent from the mesh, only
\* that channel is skipped: the jaw channel of the same phoneme is still
\* applied.
C8_AbsentShapeSkipsOnlyItself ==
  [][\A t \in timers :
       AppliesAbsentShape(t) => influences'[morphTargets["Jaw_Open"]] = 500]_vars

\* ------------------------------------------------------------------------
\* Properties of stopping and starting a session
\* ------------------------------------------------------------------------

\* C16: stopLipSync stops the pending timers of the session before it
\* fades: when it has returned, having requested its fade, no phoneme-onset
\* or reset timer is left to fire.
C16_CancelStopsTimers ==
  [][(cancels' # cancels /\ Len(rafQueue') > Len(rafQueue)) =>
       \A t \in timers' :
         t.fn \notin {"smoothTransitionToMorphTarget",
                      "smoothTransitionToNeutral"}]_vars

\* C20: the start of a text-path session never takes a weight from above
\* zero to zero in one step: the previous weights fade.
C20_StartFades ==
  [][(generation' # generation /\ lipSyncTimeouts' # {}) =>
       \A i \in Slots : influences[i] > 0 => influences'[i] > 0]_vars

\* ---------------------------------------------------------------------------
\* Live samples and the weights of earlier writers
\* ---------------------------------------------------------------------------

\* A frame whose last callback is analyzeVisemesInRealTime with the analysis
\* running and the viseme callback set: the frame ends with
\* applyVisemeInRealTime(sample).
LiveSampleApplied ==
  /\ ~painted
  /\ painted'
  /\ rafQueue # <<>>
  /\ rafQueue[Len(rafQueue)].fn = "analyzeVisemesInRealTime"
  /\ isAnalyzing
  /\ onVisemeChange

\* The slots of the targets the sample names.
OwnSlots(visemeData) ==
  {morphTargets[name] :
     name \in {n \in {visemeData.primary, visemeData.secondary} :
                 HasTarget(morphTargets, n)}}

\* C21: on the live path each sample overwrites the previous one: after
\* applyVisemeInRealTime(sample) the only non-zero weights are those of the
\* sample's own targets.
C21_SampleOverwrites ==
  [][LiveSampleApplied =>
       \A i \in Slots :
         influences'[i] # 0 =>
           i \in OwnSlots(detectVisemeFromAudio(SampleOf(signal)))]_vars

\* ---------------------------------------------------------------------------
\* The silence floor of the classifier
\* ---------------------------------------------------------------------------

\* The floor of the rest rule of classifyVisemeFromFrequencies
\* (totalIntensity < 10), in bytes.
silenceFloor == 10

\* C22: the silence floor is the first rule of the classifier: whenever the
\* overall intensity is below the floor the result is the neutral viseme
\* (primary Ah, no secondary) with confidence 0, whatever the band energies.
C22_SilenceFloorFirst ==
  (returned /\ call.detector = "PhonemeDetector"
     /\ ret.overall < silenceFloor * Scale)
    => /\ ret.viseme.primary = "Ah"
       /\ ret.viseme.secondary = "null"
       /\ ret.viseme.confidence = 0

\* ---------------------------------------------------------------------------
\* The units a tokenizer consumes
\* ---------------------------------------------------------------------------

\* extractNextPhoneme of the named tokenizer.
NextPhonemeOf(detector, word, i) ==
  IF detector = "PhonemeDetector"
  THEN PhonemeDetector_extractNextPhoneme(word, i)
  ELSE ProfessionalLipSyncSystem_extractNextPhoneme(word, i)

\* The positions at which the loop of wordToPhonemes calls
\* extractNextPhoneme, from position i on: it advances by the length of the
\* unit, and by one character when nothing matches.
RECURSIVE UnitStarts(_, _, _)
UnitStarts(detector, word, i) ==
  IF i > Len(word) THEN {}
  ELSE LET p == NextPhonemeOf(detector, word, i)
       IN {i} \cup UnitStarts(detector, word,
                              i + (IF p.length > 0 THEN p.length ELSE 1))

\* The two letters a two-character code of PhonemeDetector stands for.
Digraph ==
  ("CH" :> <<"c", "h">>) @@ ("DH" :> <<"d", "h">>) @@ ("HH" :> <<"h", "h">>) @@
  ("JH" :> <<"j", "h">>) @@ ("NG" :> <<"n", "g">>) @@ ("SH" :> <<"s", "h">>) @@
  ("TH" :> <<"t", "h">>) @@ ("ZH" :> <<"z", "h">>)

\* The word holds the two-character pattern of the code at position i.
HoldsPattern(detector, word, i, code) ==
  IF detector = "PhonemeDetector"
  THEN StartsWith(word, i, Digraph[code])
  ELSE \E k \in 1 .. Len(patterns) :
         patterns[k].phoneme = code /\ StartsWith(word, i, patterns[k].pattern)

\* C23: a two-character unit is emitted only where the word holds that
\* two-character pattern; every other position is classified, or skipped,
\* as one character, so no character is swallowed by the unit before it and
\* the codes returned are exactly the matched units.
C23_UnitsMatchText ==
  (returned /\ call.op = "wordToPhonemes") =>
    LET word == toLowerCase(call.text)
        starts == UnitStarts(call.detector, word, 1)
        unit(i) == NextPhonemeOf(call.detector, word, i)
    IN /\ \A i \in starts :
            unit(i).length = 2 =>
              HoldsPattern(call.detector, word, i, unit(i).phoneme)
       /\ Len(ret) = Cardinality({i \in starts : unit(i).length > 0})

\* ---------------------------------------------------------------------------
\* Reducing a list that has too many phoneme events
\* ---------------------------------------------------------------------------

\* C24: when a scheduling operation keeps fewer events than it was given,
\* the kept events are every step-th event of the whole list for some
\* stride step: they span the list from its first event to within one
\* stride of its last, and are not its first events only.
C24_ReducedByStride ==
  (returned /\ call.op = "startLipSyncWithAudioDuration"
     /\ Len(ret) - 1 < Len(call.phonemes))
    => \E step \in 1 .. Len(call.phonemes) :
         [k \in 1 .. Len(ret) - 1 |-> ret[k].data]
           = EveryNth(call.phonemes, step)

\* ---------------------------------------------------------------------------
\* A session started with an empty phoneme list
\* ---------------------------------------------------------------------------

\* A text-path operation has returned that was given an empty phoneme
\* list, or a text extractPhonemes finds no phoneme in.
StartedWithoutPhonemes ==
  /\ returned
  /\ \/ /\ call.op \in {"startLipSync", "startLipSyncWithAudioDuration",
                        "startEnhancedTextBasedLipSync",
                        "startSimpleNonIntrusiveLipSync"}
        /\ call.phonemes = <<>>
     \/ /\ call.op = "startTextBasedLipSync"
        /\ ProfessionalLipSyncSystem_extractPhonemes(call.text) = <<>>

\* C25: a session started with an empty phoneme list is an immediate-neutral
\* no-op: it schedules no phoneme timer, and no timer with a delay that is
\* not a number; only the return to neutral may be scheduled.
C25_EmptyListIsNoOp ==
  StartedWithoutPhonemes =>
    \A k \in 1 .. Len(ret) :
      /\ ret[k].fn \in {"smoothTransitionToNeutral", "resetToNeutral"}
      /\ ~IsNaN(ret[k].delay)

\* ---------------------------------------------------------------------------
\* Onsets and the reset timer of one schedule
\* ---------------------------------------------------------------------------

\* C28: in every text-path schedule each phoneme onset is due strictly
\* before the reset-to-neutral timer of the same session, which is the last
\* timer the operation sets.
C28_OnsetsBeforeReset ==
  returned =>
    \A i \in 1 .. Len(ret) - 1 :
      SetTimeoutDelay(ret[i].delay) < SetTimeoutDelay(ret[Len(ret)].delay)

\* ---------------------------------------------------------------------------
\* The live-analysis loop
\* ---------------------------------------------------------------------------

\* The pending ticks of self-rescheduling analysis chains: the timers of
\* analyzeAudioContinuously and the frame requests of
\* analyzeVisemesInRealTime.
AnalysisChains ==
  Cardinality({t \in timers : t.fn = "analyzeAudioContinuously"})
  + Cardinality({k \in 1 .. Len(rafQueue) :
                   rafQueue[k].fn = "analyzeVisemesInRealTime"})

\* C27: at most one live-analysis loop is running at any time: there is
\* never more than one pending tick of a self-rescheduling analysis chain.
C27_OneAnalysisChain == AnalysisChains <= 1

\* ---------------------------------------------------------------------------
\* playBabyResponse: the fallback and the speaking flag
\* ---------------------------------------------------------------------------

\* C26: when the audio of a response cannot be used (URL not accessible,
\* load error, load timeout, play() rejected), the call ends with the
\* text-based fallback started exactly once and without an exception.
C26_FallbackExactlyOnce ==
  (response.unusable /\ response.pc \in {"done", "rejected"})
    => (response.fallbacks = 1 /\ ~response.thrown)

C29_StopSparesLaterSession ==
  [][\A t \in timers :
       (Timer_stopLipSync(t) /\ t.gen < generation)
         => (isSpeaking' = isSpeaking /\ influences' = influences)]_vars

====
